---------------------------- MODULE Spec2Model ----------------------------
(***************************************************************************)
(* Retrieval-quality engine of rag_blueprint: the domain-aware query       *)
(* rewriter, the dynamic temporal retriever and the hybrid filtering       *)
(* postprocessor.                                                          *)
(*                                                                         *)
(* Text is a sequence of one-character strings, so that lower-casing,      *)
(* substring search, word-boundary search, str.split and str.startswith    *)
(* are computed the way the Python code computes them.  Scores and         *)
(* thresholds are hundredths (0.70 is 70); embeddings are integer vectors  *)
(* and the cosine comparison is done exactly on squares.                   *)
(***************************************************************************)
EXTENDS Integers, Sequences, FiniteSets, TLC

(***************************************************************************)
(* Bounds of the model.                                                    *)
(***************************************************************************)
MaxNodes == 3
MaxMentions == 2

(***************************************************************************)
(* Text primitives (Python str).                                           *)
(***************************************************************************)
LowerLetters == <<"a","b","c","d","e","f","g","h","i","j","k","l","m","n","o","p","q","r","s","t","u","v","w","x","y","z","ä","ö","ü">>
UpperLetters == <<"A","B","C","D","E","F","G","H","I","J","K","L","M","N","O","P","Q","R","S","T","U","V","W","X","Y","Z","Ä","Ö","Ü">>
Digits == {"0","1","2","3","4","5","6","7","8","9"}
Whitespace == {" "}

Range(s) == {s[i] : i \in DOMAIN s}

LowerLetterSet == Range(LowerLetters)
UpperLetterSet == Range(UpperLetters)

\* The lower-case letter of each capital letter, and the reverse
LowerTable ==
    [c \in UpperLetterSet |->
        LowerLetters[CHOOSE i \in DOMAIN UpperLetters : UpperLetters[i] = c]]

UpperTable ==
    [c \in LowerLetterSet |->
        UpperLetters[CHOOSE i \in DOMAIN LowerLetters : LowerLetters[i] = c]]

LowerChar(c) == IF c \in UpperLetterSet THEN LowerTable[c] ELSE c

UpperChar(c) == IF c \in LowerLetterSet THEN UpperTable[c] ELSE c

\* str.lower()
Lower(s) == [i \in 1..Len(s) |-> LowerChar(s[i])]

\* str.upper()
Upper(s) == [i \in 1..Len(s) |-> UpperChar(s[i])]

\* sub in s
Contains(sub, s) ==
    \E i \in 0..(Len(s) - Len(sub)) : SubSeq(s, i + 1, i + Len(sub)) = sub

\* s.startswith(prefix)
StartsWith(s, prefix) ==
    /\ Len(prefix) <= Len(s)
    /\ SubSeq(s, 1, Len(prefix)) = prefix

\* str.strip()
RECURSIVE LStrip(_)
LStrip(s) == IF s # <<>> /\ Head(s) \in Whitespace THEN LStrip(Tail(s)) ELSE s

RECURSIVE RStrip(_)
RStrip(s) ==
    IF s # <<>> /\ s[Len(s)] \in Whitespace
    THEN RStrip(SubSeq(s, 1, Len(s) - 1))
    ELSE s

Strip(s) == RStrip(LStrip(s))

\* f"{a} {b}"
JoinSpace(a, b) == a \o <<" ">> \o b

\* any(p(x) for x in seq)
AnyKeywordIn(keywords, text) ==
    \E k \in 1..Len(keywords) : Contains(keywords[k], text)

\* regex \w
IsWordChar(c) ==
    \/ c \in LowerLetterSet
    \/ c \in UpperLetterSet
    \/ c \in Digits
    \/ c = "_"

\* regex \b at the position between text[p] and text[p+1]
WordBoundaryAt(text, p) ==
    LET before == p >= 1 /\ p <= Len(text) /\ IsWordChar(text[p])
        after == p + 1 >= 1 /\ p + 1 <= Len(text) /\ IsWordChar(text[p + 1])
    IN  before # after

\* re.search(rf"\b{re.escape(keyword)}\b", text, re.IGNORECASE)
WordSearch(keyword, text) ==
    \E i \in 0..(Len(text) - Len(keyword)) :
        /\ Lower(SubSeq(text, i + 1, i + Len(keyword))) = Lower(keyword)
        /\ WordBoundaryAt(text, i)
        /\ WordBoundaryAt(text, i + Len(keyword))

\* "".join of a list of lists (list.extend in a loop)
RECURSIVE Flatten(_)
Flatten(ss) == IF ss = <<>> THEN <<>> ELSE Head(ss) \o Flatten(Tail(ss))


(***************************************************************************)
(* Python values that reach str(), truthiness or dict.get: an int, a str   *)
(* or None.                                                                *)
(***************************************************************************)
PyInt(n) == [t |-> "int", n |-> n, s |-> <<>>]
PyText(s) == [t |-> "str", n |-> 0, s |-> s]
PyNone == [t |-> "none", n |-> 0, s |-> <<>>]

DigitChars == <<"0","1","2","3","4","5","6","7","8","9">>

RECURSIVE NatToText(_)
NatToText(n) ==
    IF n < 10 THEN <<DigitChars[n + 1]>>
    ELSE NatToText(n \div 10) \o <<DigitChars[(n % 10) + 1]>>

\* str(v)
PyStr(v) ==
    CASE v.t = "int" -> NatToText(v.n)
      [] v.t = "str" -> v.s
      [] v.t = "none" -> <<"N","o","n","e">>

\* bool(v)
Truthy(v) ==
    CASE v.t = "int" -> v.n # 0
      [] v.t = "str" -> v.s # <<>>
      [] v.t = "none" -> FALSE

\* d.get(key, default)
DictGet(d, key, default) == IF key \in DOMAIN d THEN d[key] ELSE default

(***************************************************************************)
(* TemporalDomainConfiguration.  language_detection and period_identifiers *)
(* are dicts read in insertion order, so they are sequences of entries.    *)
(***************************************************************************)
NoConfig == [present |-> FALSE]

NoKeywords == [en |-> <<>>, de |-> <<>>, fr |-> <<>>, es |-> <<>>]
NoTerms == [en |-> <<>>, de |-> <<>>, fr |-> <<>>, es |-> <<>>]

Bundestag ==
    [present |-> TRUE,
     name |-> "bundestag",
     metadata_schema |->
        [temporal_field |-> "legislature_period",
         current_period |-> PyInt(21),
         historical_period |-> PyInt(20)],
     temporal_keywords |->
        [current |-> [NoKeywords EXCEPT !.en = << <<"n","o","w">> >>,
                                         !.de = << <<"j","e","t","z","t">> >>],
         historical |-> [NoKeywords EXCEPT !.en = << <<"l","a","s","t">> >>]],
     period_identifiers |->
        << [id |-> "20", names |-> << <<"W","P","2","0">> >>, temporal_type |-> "historical"],
           [id |-> "21", names |-> << <<"W","P","2","1">> >>, temporal_type |-> "current"] >>,
     query_expansion |->
        [temporal_current |-> [NoTerms EXCEPT !.en = <<"n","o","w"," ","2","1">>,
                                              !.de = <<"j","e","t","z","t"," ","2","1">>],
         temporal_historical |-> [NoTerms EXCEPT !.en = <<"l","a","s","t"," ","2","0">>],
         entity_terms |-> [NoTerms EXCEPT !.de = <<"F","r","a","k","t","i","o","n">>]],
     language_detection |->
        << [lang |-> "de", indicators |-> << <<"w","e","r">>, <<"d","i","e">> >>],
           [lang |-> "en", indicators |-> << <<"w","h","a","t">>, <<"t","h","e">> >>] >>]

\* A second domain: no entity_terms template, no language patterns, no
\* period identifiers, and the default temporal field name.
Archive ==
    [present |-> TRUE,
     name |-> "archive",
     metadata_schema |->
        [current_period |-> PyInt(21),
         historical_period |-> PyInt(20)],
     temporal_keywords |->
        [current |-> [NoKeywords EXCEPT !.en = << <<"n","e","w">> >>],
         historical |-> [NoKeywords EXCEPT !.en = << <<"o","l","d">> >>]],
     period_identifiers |-> << >>,
     query_expansion |->
        [temporal_current |-> [NoTerms EXCEPT !.de = <<"n","e","u">>]],
     language_detection |-> << >>]

\* A third domain: historical keywords without a temporal_historical
\* template, entity_terms in English only, no language patterns.
Chronicle ==
    [present |-> TRUE,
     name |-> "chronicle",
     metadata_schema |->
        [temporal_field |-> "legislature_period",
         current_period |-> PyInt(21),
         historical_period |-> PyInt(20)],
     temporal_keywords |->
        [current |-> [NoKeywords EXCEPT !.en = << <<"t","o","d","a","y">> >>],
         historical |-> [NoKeywords EXCEPT !.en = << <<"f","o","r","m","e","r">> >>]],
     period_identifiers |-> << >>,
     query_expansion |->
        [temporal_current |-> [NoTerms EXCEPT !.en = <<"t","o","d","a","y"," ","2","1">>],
         entity_terms |-> [NoTerms EXCEPT !.en = <<"g","r","o","u","p","s">>]],
     language_detection |-> << >>]

\* TemporalDomainConfiguration.current_period_value
current_period_value(cfg) ==
    DictGet(cfg.metadata_schema, "current_period", PyNone)

\* TemporalDomainConfiguration.historical_period_value
historical_period_value(cfg) ==
    DictGet(cfg.metadata_schema, "historical_period", PyNone)

\* TemporalDomainConfiguration.temporal_field_name
temporal_field_name(cfg) ==
    DictGet(cfg.metadata_schema, "temporal_field", "period")

AllLanguages(kw) == kw.en \o kw.de \o kw.fr \o kw.es

\* TemporalDomainConfiguration.get_all_current_keywords
get_all_current_keywords(cfg) ==
    IF "current" \in DOMAIN cfg.temporal_keywords
    THEN AllLanguages(cfg.temporal_keywords["current"])
    ELSE <<>>

HistoricalPeriodNames(cfg) ==
    Flatten([i \in 1..Len(cfg.period_identifiers) |->
                IF cfg.period_identifiers[i].temporal_type = "historical"
                THEN cfg.period_identifiers[i].names
                ELSE <<>>])

\* TemporalDomainConfiguration.get_all_historical_keywords
get_all_historical_keywords(cfg) ==
    (IF "historical" \in DOMAIN cfg.temporal_keywords
     THEN AllLanguages(cfg.temporal_keywords["historical"])
     ELSE <<>>) \o HistoricalPeriodNames(cfg)

\* TemporalDomainConfiguration.detect_language
detect_language(cfg, query) ==
    LET query_lower == Lower(query)
        hits == {i \in 1..Len(cfg.language_detection) :
                    AnyKeywordIn(cfg.language_detection[i].indicators, query_lower)}
    IN  IF hits = {} THEN "en"
        ELSE cfg.language_detection[CHOOSE i \in hits : \A j \in hits : i <= j].lang

\* TemporalDomainConfiguration.get_expansion_terms
get_expansion_terms(cfg, expansion_type, language) ==
    IF expansion_type \notin DOMAIN cfg.query_expansion THEN <<>>
    ELSE DictGet(cfg.query_expansion[expansion_type], language, <<>>)

\* [kw.lower() for kw in keywords]
LowerAll(keywords) == [i \in 1..Len(keywords) |-> Lower(keywords[i])]


(***************************************************************************)
(* QueryRewriter                                                           *)
(***************************************************************************)
\* QueryRewriter.__init__: self._historical_keywords
RewriterHistoricalKeywords(cfg) ==
    IF cfg.present THEN LowerAll(get_all_historical_keywords(cfg)) ELSE <<>>

\* QueryRewriter.__init__: self._current_keywords
RewriterCurrentKeywords(cfg) ==
    IF cfg.present THEN LowerAll(get_all_current_keywords(cfg)) ELSE <<>>

\* QueryRewriter._extract_entity_keywords_from_config
extract_entity_keywords_from_config ==
    << <<"p","a","r","t","y">>, <<"p","a","r","t","i","e","s">>, <<"p","a","r","t","e","i">>, <<"p","a","r","t","e","i","e","n">>, <<"f","r","a","k","t","i","o","n">>,
       <<"f","r","a","k","t","i","o","n","e","n">>, <<"g","r","o","u","p">>, <<"g","r","o","u","p","s">>, <<"f","a","c","t","i","o","n">>, <<"f","a","c","t","i","o","n","s">> >>

\* The shared lookup of the three _expand_* methods: the terms of the
\* detected language, else those of the one fallback language.
ExpansionWithFallback(cfg, expansion_type, language) ==
    LET expansion == get_expansion_terms(cfg, expansion_type, language)
        fallback_lang == IF language # "de" THEN "de" ELSE "en"
    IN  IF expansion = <<>>
        THEN get_expansion_terms(cfg, expansion_type, fallback_lang)
        ELSE expansion

\* QueryRewriter._expand_entity_query
expand_entity_query(cfg, query, query_lower) ==
    IF ~cfg.present THEN query
    ELSE LET language == detect_language(cfg, query_lower)
             expansion == ExpansionWithFallback(cfg, "entity_terms", language)
         IN  IF expansion # <<>> THEN JoinSpace(query, expansion) ELSE query

\* QueryRewriter._expand_historical_query
expand_historical_query(cfg, query, query_lower) ==
    IF ~cfg.present THEN query
    ELSE LET language == detect_language(cfg, query_lower)
             base == ExpansionWithFallback(cfg, "temporal_historical", language)
             entity_terms_present ==
                 AnyKeywordIn(extract_entity_keywords_from_config, query_lower)
             entity_expansion == get_expansion_terms(cfg, "entity_terms", language)
             expansion ==
                 IF entity_terms_present /\ entity_expansion # <<>>
                 THEN JoinSpace(base, entity_expansion)
                 ELSE base
         IN  IF expansion # <<>> THEN JoinSpace(query, expansion) ELSE query

\* QueryRewriter._expand_temporal_query
expand_temporal_query(cfg, query, query_lower) ==
    IF ~cfg.present THEN query
    ELSE LET language == detect_language(cfg, query_lower)
             expansion == ExpansionWithFallback(cfg, "temporal_current", language)
         IN  IF expansion # <<>> THEN JoinSpace(query, expansion) ELSE query

\* Variant of rewrite: a query that matches no pattern is expanded as a
\* current query.
rewrite_default_current(cfg, query) ==
    IF query = <<>> \/ Strip(query) = <<>> THEN query
    ELSE IF ~cfg.present THEN query
    ELSE LET query_lower == Lower(query)
         IN  IF AnyKeywordIn(RewriterHistoricalKeywords(cfg), query_lower)
             THEN expand_historical_query(cfg, query, query_lower)
             ELSE IF /\ "entity_terms" \in DOMAIN cfg.query_expansion
                     /\ AnyKeywordIn(extract_entity_keywords_from_config, query_lower)
                     /\ ~AnyKeywordIn(RewriterCurrentKeywords(cfg), query_lower)
             THEN expand_entity_query(cfg, query, query_lower)
             ELSE expand_temporal_query(cfg, query, query_lower)

\* Variant of rewrite: the current keywords are checked before the
\* historical ones.
rewrite_current_first(cfg, query) ==
    IF query = <<>> \/ Strip(query) = <<>> THEN query
    ELSE IF ~cfg.present THEN query
    ELSE LET query_lower == Lower(query)
         IN  IF AnyKeywordIn(RewriterCurrentKeywords(cfg), query_lower)
             THEN expand_temporal_query(cfg, query, query_lower)
             ELSE IF AnyKeywordIn(RewriterHistoricalKeywords(cfg), query_lower)
             THEN expand_historical_query(cfg, query, query_lower)
             ELSE IF /\ "entity_terms" \in DOMAIN cfg.query_expansion
                     /\ AnyKeywordIn(extract_entity_keywords_from_config, query_lower)
             THEN expand_entity_query(cfg, query, query_lower)
             ELSE query

\* QueryRewriter.rewrite
rewrite(cfg, query) ==
    IF query = <<>> \/ Strip(query) = <<>> THEN query
    ELSE IF ~cfg.present THEN query
    ELSE LET query_lower == Lower(query)
         IN  IF AnyKeywordIn(RewriterHistoricalKeywords(cfg), query_lower)
             THEN expand_historical_query(cfg, query, query_lower)
             ELSE IF AnyKeywordIn(RewriterCurrentKeywords(cfg), query_lower)
             THEN expand_temporal_query(cfg, query, query_lower)
             ELSE IF /\ "entity_terms" \in DOMAIN cfg.query_expansion
                     /\ AnyKeywordIn(extract_entity_keywords_from_config, query_lower)
             THEN expand_entity_query(cfg, query, query_lower)
             ELSE query

\* QueryRewriter.rewrite: the pattern whose expansion is applied
rewrite_branch(cfg, query) ==
    IF query = <<>> \/ Strip(query) = <<>> THEN "none"
    ELSE IF ~cfg.present THEN "none"
    ELSE LET query_lower == Lower(query)
         IN  IF AnyKeywordIn(RewriterHistoricalKeywords(cfg), query_lower)
             THEN "historical"
             ELSE IF AnyKeywordIn(RewriterCurrentKeywords(cfg), query_lower)
             THEN "current"
             ELSE IF /\ "entity_terms" \in DOMAIN cfg.query_expansion
                     /\ AnyKeywordIn(extract_entity_keywords_from_config, query_lower)
             THEN "entity"
             ELSE "none"

\* QueryRewriter.should_rewrite
should_rewrite(cfg, query) ==
    IF query = <<>> \/ ~cfg.present THEN FALSE
    ELSE LET query_lower == Lower(query)
         IN  \/ AnyKeywordIn(RewriterHistoricalKeywords(cfg), query_lower)
             \/ AnyKeywordIn(RewriterCurrentKeywords(cfg), query_lower)
             \/ AnyKeywordIn(extract_entity_keywords_from_config, query_lower)

\* Variant of rewrite_call: the text test (query.strip()) is made before the
\* test for an absent query.
rewrite_call_strip_first(cfg, query) ==
    IF query.t # "str"
    THEN [raised |-> TRUE, value |-> PyNone]
    ELSE [raised |-> FALSE, value |-> PyText(rewrite(cfg, query.s))]

\* QueryRewriter.rewrite as Python calls it, with any value as query:
\* `not query` holds for None (and for 0) as for the empty text, and
\* query.strip() raises AttributeError on a value that is not a text.
rewrite_call(cfg, query) ==
    IF ~Truthy(query)
    THEN [raised |-> FALSE, value |-> query]
    ELSE IF query.t # "str"
    THEN [raised |-> TRUE, value |-> PyNone]
    ELSE [raised |-> FALSE, value |-> PyText(rewrite(cfg, query.s))]

\* QueryRewriter.should_rewrite as Python calls it: query.lower() raises
\* AttributeError on a value that is not a text.
should_rewrite_call(cfg, query) ==
    IF ~Truthy(query) \/ ~cfg.present
    THEN [raised |-> FALSE, value |-> FALSE]
    ELSE IF query.t # "str"
    THEN [raised |-> TRUE, value |-> FALSE]
    ELSE [raised |-> FALSE, value |-> should_rewrite(cfg, query.s)]

(***************************************************************************)
(* DynamicTemporalRetriever                                                *)
(***************************************************************************)
\* DynamicTemporalRetriever.__init__: self._historical_keywords
RetrieverHistoricalKeywords(cfg) ==
    IF cfg.present THEN get_all_historical_keywords(cfg) ELSE <<>>

\* DynamicTemporalRetriever.__init__: self._current_keywords
RetrieverCurrentKeywords(cfg) ==
    IF cfg.present THEN get_all_current_keywords(cfg) ELSE <<>>

\* any keyword of the list is found by the word-boundary search
AnyWordSearch(keywords, text) ==
    \E k \in 1..Len(keywords) : WordSearch(keywords[k], text)

\* Variant of get_temporal_filter_mode: the current keywords are checked
\* before the historical ones.
get_temporal_filter_mode_current_first(cfg, query) ==
    IF ~cfg.present THEN "none"
    ELSE LET query_lower == Lower(query)
         IN  IF AnyWordSearch(RetrieverCurrentKeywords(cfg), query_lower)
             THEN "current"
             ELSE IF AnyWordSearch(RetrieverHistoricalKeywords(cfg), query_lower)
             THEN "historical"
             ELSE "none"

\* DynamicTemporalRetriever._get_temporal_filter_mode
get_temporal_filter_mode(cfg, query) ==
    IF ~cfg.present THEN "none"
    ELSE LET query_lower == Lower(query)
         IN  IF AnyWordSearch(RetrieverHistoricalKeywords(cfg), query_lower)
             THEN "historical"
             ELSE IF AnyWordSearch(RetrieverCurrentKeywords(cfg), query_lower)
             THEN "current"
             ELSE "none"

\* MetadataFilters(filters=[MetadataFilter(key, value, operator=EQ)])
MetadataFilters(key, value) ==
    << [key |-> key, value |-> value, operator |-> "EQ"] >>

\* Variant of RetrieverArguments: the historical branch filters on the
\* current period value.
RetrieverArgumentsSamePeriod(cfg, similarity_top_k, filter_mode) ==
    IF filter_mode \in {"current", "historical"} /\ cfg.present
    THEN [similarity_top_k |-> similarity_top_k, has_filters |-> TRUE,
          filters |-> MetadataFilters(temporal_field_name(cfg),
                                      current_period_value(cfg))]
    ELSE [similarity_top_k |-> similarity_top_k, has_filters |-> FALSE,
          filters |-> <<>>]

\* The keyword arguments of index.as_retriever(...) chosen in _retrieve.
\* has_filters is FALSE when the filters argument is not passed at all.
RetrieverArguments(cfg, similarity_top_k, filter_mode) ==
    IF filter_mode = "current" /\ cfg.present
    THEN [similarity_top_k |-> similarity_top_k, has_filters |-> TRUE,
          filters |-> MetadataFilters(temporal_field_name(cfg),
                                      current_period_value(cfg))]
    ELSE IF filter_mode = "historical" /\ cfg.present
    THEN [similarity_top_k |-> similarity_top_k, has_filters |-> TRUE,
          filters |-> MetadataFilters(temporal_field_name(cfg),
                                      historical_period_value(cfg))]
    ELSE [similarity_top_k |-> similarity_top_k, has_filters |-> FALSE,
          filters |-> <<>>]

\* The text _retrieve hands to retriever.retrieve: query_bundle.query_str
\* after the bundle was replaced when rewriting changed the query.
SearchText(cfg, original_query) ==
    LET rewritten_query == rewrite(cfg, original_query)
    IN  IF rewritten_query # original_query THEN rewritten_query
        ELSE original_query


(***************************************************************************)
(* HybridFilterPostprocessor                                               *)
(***************************************************************************)
\* HybridFilterPostprocessor.__init__: self._historical_keywords
PostprocessorHistoricalKeywords(cfg) ==
    IF cfg.present THEN LowerAll(get_all_historical_keywords(cfg)) ELSE <<>>

\* HybridFilterPostprocessor.__init__: self._current_keywords
PostprocessorCurrentKeywords(cfg) ==
    IF cfg.present THEN LowerAll(get_all_current_keywords(cfg)) ELSE <<>>

\* HybridFilterPostprocessor._filter_by_score
filter_by_score(nodes, score_threshold) ==
    SelectSeq(nodes, LAMBDA n : n.score >= score_threshold)

\* document_number.split("/")[0]
BeforeFirstSlash(s) ==
    IF \E i \in 1..Len(s) : s[i] = "/"
    THEN SubSeq(s, 1, (CHOOSE i \in 1..Len(s) :
                          /\ s[i] = "/"
                          /\ \A j \in 1..(i - 1) : s[j] # "/") - 1)
    ELSE s

\* The period of a node as both branches of _filter_by_temporal_relevance
\* compute it: the metadata field, else the document_number prefix, as str.
ResolvedPeriod(node, field_name) ==
    LET period == DictGet(node.metadata, field_name, PyText(<<>>))
        document_number == DictGet(node.metadata, "document_number", <<>>)
        resolved ==
            IF ~Truthy(period) /\ Contains(<<"/">>, document_number)
            THEN PyText(BeforeFirstSlash(document_number))
            ELSE period
    IN  IF Truthy(resolved) THEN PyStr(resolved) ELSE <<>>

\* Variant of KeepsHistorical: the test of the current loop copied into the
\* historical loop.
KeepsHistoricalOrUnknown(period, target_period) ==
    period = target_period \/ period = <<>>

\* The test of the historical loop: period == target_period
KeepsHistorical(period, target_period) == period = target_period

\* Variant of KeepsCurrent: a node of unknown period is dropped.
KeepsCurrentStrict(period, current_period) == period = current_period

\* The test of the current loop: period == current_period or period == ""
KeepsCurrent(period, current_period) ==
    period = current_period \/ period = <<>>

\* Variant of Failsafe: the empty-result check is missing.
FailsafeMissing(nodes, filtered, applied) ==
    [nodes |-> filtered, applied |-> applied]

\* The end of both branches: `if not filtered: return nodes, False`, else
\* the filtered list with the branch's flag.
Failsafe(nodes, filtered, applied) ==
    IF filtered = <<>>
    THEN [nodes |-> nodes, applied |-> FALSE]
    ELSE [nodes |-> filtered, applied |-> applied]

\* Variant of filter_by_temporal_relevance: a query without temporal keyword
\* is filtered to the current period.
filter_by_temporal_relevance_default_current(cfg, nodes, query) ==
    IF ~cfg.present THEN [nodes |-> nodes, applied |-> FALSE]
    ELSE
      LET query_lower == Lower(query)
          field_name == temporal_field_name(cfg)
      IN  IF AnyKeywordIn(PostprocessorHistoricalKeywords(cfg), query_lower)
          THEN LET target_period == PyStr(historical_period_value(cfg))
                   filtered ==
                       SelectSeq(nodes, LAMBDA n :
                           KeepsHistorical(ResolvedPeriod(n, field_name),
                                           target_period))
               IN  Failsafe(nodes, filtered, TRUE)
          ELSE LET current_period == PyStr(current_period_value(cfg))
                   filtered ==
                       SelectSeq(nodes, LAMBDA n :
                           KeepsCurrent(ResolvedPeriod(n, field_name),
                                        current_period))
               IN  Failsafe(nodes, filtered, FALSE)

\* HybridFilterPostprocessor._filter_by_temporal_relevance: the returned
\* tuple (nodes, applied_historical_filter)
filter_by_temporal_relevance(cfg, nodes, query) ==
    IF ~cfg.present THEN [nodes |-> nodes, applied |-> FALSE]
    ELSE
      LET query_lower == Lower(query)
          field_name == temporal_field_name(cfg)
      IN  IF AnyKeywordIn(PostprocessorHistoricalKeywords(cfg), query_lower)
          THEN LET target_period == PyStr(historical_period_value(cfg))
                   filtered ==
                       SelectSeq(nodes, LAMBDA n :
                           KeepsHistorical(ResolvedPeriod(n, field_name),
                                           target_period))
               IN  Failsafe(nodes, filtered, TRUE)
          ELSE IF ~AnyKeywordIn(PostprocessorCurrentKeywords(cfg), query_lower)
          THEN [nodes |-> nodes, applied |-> FALSE]
          ELSE LET current_period == PyStr(current_period_value(cfg))
                   filtered ==
                       SelectSeq(nodes, LAMBDA n :
                           KeepsCurrent(ResolvedPeriod(n, field_name),
                                        current_period))
               IN  Failsafe(nodes, filtered, FALSE)

\* HybridFilterPostprocessor._filter_by_temporal_relevance: the filter branch
\* taken for the query
temporal_filter_branch(cfg, query) ==
    IF ~cfg.present THEN "none"
    ELSE LET query_lower == Lower(query)
         IN  IF AnyKeywordIn(PostprocessorHistoricalKeywords(cfg), query_lower)
             THEN "historical"
             ELSE IF ~AnyKeywordIn(PostprocessorCurrentKeywords(cfg), query_lower)
             THEN "none"
             ELSE "current"

Dot(vec1, vec2) ==
    LET RECURSIVE Sum(_)
        Sum(i) == IF i = 0 THEN 0 ELSE vec1[i] * vec2[i] + Sum(i - 1)
    IN  Sum(Len(vec1))

\* _cosine_similarity(vec1, vec2) >= threshold / 100, exactly: the
\* similarity is 0.0 when a norm is zero, else dot / (norm1 * norm2).
CosineAtLeast(vec1, vec2, threshold) ==
    LET dot_product == Dot(vec1, vec2)
        norm1_sq == Dot(vec1, vec1)
        norm2_sq == Dot(vec2, vec2)
    IN  IF norm1_sq = 0 \/ norm2_sq = 0 THEN 0 >= threshold
        ELSE IF dot_product < 0
        THEN threshold < 0
             /\ 10000 * dot_product * dot_product
                  <= threshold * threshold * norm1_sq * norm2_sq
        ELSE threshold <= 0
             \/ 10000 * dot_product * dot_product
                  >= threshold * threshold * norm1_sq * norm2_sq

\* Variant of are_nodes_similar: a node without an embedding is similar to
\* every node.
are_nodes_similar_without_embedding(node1, node2, similarity_threshold) ==
    IF node1.embedding.present /\ node2.embedding.present
    THEN CosineAtLeast(node1.embedding.vec, node2.embedding.vec,
                       similarity_threshold)
    ELSE TRUE

\* HybridFilterPostprocessor._are_nodes_similar
are_nodes_similar(node1, node2, similarity_threshold) ==
    IF node1.embedding.present /\ node2.embedding.present
    THEN CosineAtLeast(node1.embedding.vec, node2.embedding.vec,
                       similarity_threshold)
    ELSE FALSE

\* Variant of DeduplicateFrom: a node is compared with the last kept node
\* only, and no later node is marked.
RECURSIVE DeduplicateAgainstLastKept(_, _, _, _, _)
DeduplicateAgainstLastKept(nodes, i, kept_nodes, skip_indices, threshold) ==
    IF i > Len(nodes) THEN kept_nodes
    ELSE IF /\ kept_nodes # <<>>
            /\ are_nodes_similar(nodes[i], kept_nodes[Len(kept_nodes)], threshold)
    THEN DeduplicateAgainstLastKept(nodes, i + 1, kept_nodes, skip_indices,
                                    threshold)
    ELSE DeduplicateAgainstLastKept(nodes, i + 1, Append(kept_nodes, nodes[i]),
                                    skip_indices, threshold)

\* The loop of _deduplicate_semantically from index i on, with the
\* kept_nodes and skip_indices built so far.
RECURSIVE DeduplicateFrom(_, _, _, _, _)
DeduplicateFrom(nodes, i, kept_nodes, skip_indices, threshold) ==
    IF i > Len(nodes) THEN kept_nodes
    ELSE IF i \in skip_indices
    THEN DeduplicateFrom(nodes, i + 1, kept_nodes, skip_indices, threshold)
    ELSE
      LET is_duplicate ==
              \E k \in 1..Len(kept_nodes) :
                  are_nodes_similar(nodes[i], kept_nodes[k], threshold)
          marked ==
              {j \in (i + 1)..Len(nodes) :
                  /\ j \notin skip_indices
                  /\ are_nodes_similar(nodes[i], nodes[j], threshold)}
      IN  IF is_duplicate
          THEN DeduplicateFrom(nodes, i + 1, kept_nodes, skip_indices, threshold)
          ELSE DeduplicateFrom(nodes, i + 1, Append(kept_nodes, nodes[i]),
                               skip_indices \cup marked, threshold)

\* HybridFilterPostprocessor._deduplicate_semantically
deduplicate_semantically(nodes, similarity_threshold) ==
    IF Len(nodes) <= 1 THEN nodes
    ELSE DeduplicateFrom(nodes, 1, <<>>, {}, similarity_threshold)

\* Variant of LlmKeeps: fail-closed, a node whose call raised is dropped.
LlmKeepsFailClosed(outcome) ==
    /\ ~outcome.raised
    /\ StartsWith(Upper(Strip(outcome.text)), <<"Y","E","S">>)

\* One pass of the loop body of _filter_by_llm_relevance after the call to
\* self._llm.complete: the node is kept when the call raised, or when
\* response.text.strip().upper().startswith("YES").
LlmKeeps(outcome) ==
    \/ outcome.raised
    \/ StartsWith(Upper(Strip(outcome.text)), <<"Y","E","S">>)

\* Variant of Take: the cap keeps the last n elements.
TakeLast(nodes, n) ==
    SubSeq(nodes, IF n < Len(nodes) THEN Len(nodes) - n + 1 ELSE 1, Len(nodes))

\* nodes[: max_documents]
Take(nodes, n) == SubSeq(nodes, 1, IF n < Len(nodes) THEN n ELSE Len(nodes))

\* Variant of Stages: the temporal filter runs before the score filter.
StagesTemporalFirst(cfg, configuration, nodes, query_bundle) ==
    LET temporal ==
            IF query_bundle.present
            THEN filter_by_temporal_relevance(cfg, nodes, query_bundle.query_str)
            ELSE [nodes |-> nodes, applied |-> FALSE]
        scored == filter_by_score(temporal.nodes, configuration.score_threshold)
        deduped ==
            deduplicate_semantically(scored, configuration.similarity_threshold)
    IN  [scored |-> scored,
         temporal |-> temporal.nodes,
         applied_historical_filter |-> temporal.applied,
         deduped |-> deduped]

\* Stages 1 to 3 of _postprocess_nodes for a non-empty input: the value of
\* the local `nodes` after each stage, and applied_historical_filter.
Stages(cfg, configuration, nodes, query_bundle) ==
    LET scored == filter_by_score(nodes, configuration.score_threshold)
        temporal ==
            IF query_bundle.present
            THEN filter_by_temporal_relevance(cfg, scored, query_bundle.query_str)
            ELSE [nodes |-> scored, applied |-> FALSE]
        deduped ==
            deduplicate_semantically(temporal.nodes,
                                     configuration.similarity_threshold)
    IN  [scored |-> scored,
         temporal |-> temporal.nodes,
         applied_historical_filter |-> temporal.applied,
         deduped |-> deduped]

\* Variant of RunsLlmFilter: the historical filter does not switch stage 4
\* off.
RunsLlmFilterAfterHistorical(configuration, query_bundle, applied_historical_filter) ==
    /\ configuration.enable_llm_filter
    /\ configuration.llm
    /\ query_bundle.present

\* The condition of stage 4 in _postprocess_nodes.
RunsLlmFilter(configuration, query_bundle, applied_historical_filter) ==
    /\ configuration.enable_llm_filter
    /\ configuration.llm
    /\ query_bundle.present
    /\ ~applied_historical_filter


(***************************************************************************)
(* PartyExtractor (entity extractor)                                       *)
(***************************************************************************)
\* c.isupper() and c.isalpha() for one character
IsUpper(c) == c \in UpperLetterSet
IsAlpha(c) == c \in UpperLetterSet \/ c \in LowerLetterSet

\* sum(1 for c in text_clean if c.isupper())
uppercase_count(text_clean) ==
    Cardinality({i \in 1..Len(text_clean) : IsUpper(text_clean[i])})

\* sum(1 for c in text_clean if c.isalpha())
alpha_count(text_clean) ==
    Cardinality({i \in 1..Len(text_clean) : IsAlpha(text_clean[i])})

\* PartyExtractor.NON_PARTY_KEYWORDS
NON_PARTY_KEYWORDS ==
    { <<"B","u","n","d","e","s","k","a","n","z","l","e","r">>, <<"B","u","n","d","e","s","k","a","n","z","l","e","r","i","n">>, <<"B","u","n","d","e","s","m","i","n","i","s","t","e","r">>,
      <<"B","u","n","d","e","s","m","i","n","i","s","t","e","r","i","n">>, <<"B","u","n","d","e","s","p","r","ä","s","i","d","e","n","t">>, <<"B","u","n","d","e","s","p","r","ä","s","i","d","e","n","t","i","n">>,
      <<"P","r","ä","s","i","d","e","n","t">>, <<"P","r","ä","s","i","d","e","n","t","i","n">>, <<"S","t","a","a","t","s","m","i","n","i","s","t","e","r">>,
      <<"S","t","a","a","t","s","m","i","n","i","s","t","e","r","i","n">>, <<"S","t","a","a","t","s","s","e","k","r","e","t","ä","r">>, <<"S","t","a","a","t","s","s","e","k","r","e","t","ä","r","i","n">>,
      <<"B","e","r","l","i","n">>, <<"B","o","n","n">>, <<"p","a","r","t","e","i","l","o","s">>, <<"f","r","a","k","t","i","o","n","s","l","o","s">>, <<"G","a","s","t">>,
      <<"E","U">>, <<"U","N">>, <<"N","A","T","O">>, <<"O","S","Z","E">>, <<"W","H","O">>, <<"I","W","F">>, <<"E","Z","B">>,
      <<"B","M","W","E">>, <<"B","M","I">>, <<"B","M","F">>, <<"B","M","A","S">>, <<"B","M","Z">>, <<"B","M","V","I">>, <<"B","M","V","g">>,
      <<"B","T">>, <<"B","R">>, <<"U","S","A">>, <<"U","K">>, <<"F","R">>, <<"T","O","P">>, <<"Z","P">> }

\* text.split("/")
RECURSIVE SplitSlash(_)
SplitSlash(text) ==
    IF \A i \in 1..Len(text) : text[i] # "/"
    THEN <<text>>
    ELSE LET p == CHOOSE i \in 1..Len(text) :
                      /\ text[i] = "/"
                      /\ \A j \in 1..(i - 1) : text[j] # "/"
         IN  <<SubSeq(text, 1, p - 1)>> \o SplitSlash(SubSeq(text, p + 1, Len(text)))

\* PATTERN 1 of _is_likely_party: all letters, at least 2 of them uppercase
ShortAbbreviation(text_clean) ==
    /\ alpha_count(text_clean) = Len(text_clean)
    /\ uppercase_count(text_clean) >= 2

\* PATTERN 2 of _is_likely_party: uppercase_ratio >= 0.5 and letters on
\* both sides of the one "/"
CompoundName(text_clean) ==
    LET parts == SplitSlash(text_clean)
    IN  /\ 2 * uppercase_count(text_clean) >= alpha_count(text_clean)
        /\ Len(parts) = 2
        /\ \A k \in 1..2 : \E i \in 1..Len(parts[k]) : IsAlpha(parts[k][i])

\* PATTERN 3 of _is_likely_party: a capitalized word after "Die " / "DIE "
ArticleName(text_clean) ==
    LET remaining == Strip(SubSeq(text_clean, 5, Len(text_clean)))
    IN  remaining # <<>> /\ IsUpper(remaining[1])

\* PartyExtractor._is_likely_party
is_likely_party(text) ==
    LET text_clean == Strip(text)
    IN  IF Len(text_clean) < 2 THEN FALSE
        ELSE IF Len(text_clean) > 25 THEN FALSE
        ELSE IF \E keyword \in NON_PARTY_KEYWORDS : Contains(keyword, text_clean)
        THEN FALSE
        ELSE IF uppercase_count(text_clean) = 0 THEN FALSE
        ELSE IF alpha_count(text_clean) = 0 THEN FALSE
        ELSE IF Len(text_clean) <= 6 THEN ShortAbbreviation(text_clean)
        ELSE IF Contains(<<"/">>, text_clean) THEN CompoundName(text_clean)
        ELSE IF \/ StartsWith(text_clean, <<"D","i","e"," ">>)
                \/ StartsWith(text_clean, <<"D","I","E"," ">>)
        THEN ArticleName(text_clean)
        ELSE \/ StartsWith(text_clean, <<"B","ü","n","d","n","i","s">>)
             \/ StartsWith(text_clean, <<"B","Ü","N","D","N","I","S">>)
             \/ StartsWith(text_clean, <<"B","u","n","d">>)


\* The character classes of the speaker pattern
\*   (\b[A-ZÄÖÜa-zäöüß][A-ZÄÖÜa-zäöüß0-9\.\s]*?)\s+\(([^)]+)\)
IsNameStart(c) == IsAlpha(c)
IsNameChar(c) == IsAlpha(c) \/ c \in Digits \/ c = "." \/ c \in Whitespace

\* The first position from p on whose character is not a name character
\* (Len(text) + 1 when there is none).
RECURSIVE NameEnd(_, _)
NameEnd(text, p) ==
    IF p > Len(text) \/ ~IsNameChar(text[p]) THEN p ELSE NameEnd(text, p + 1)

\* The first position from p on that holds ")" (Len(text) + 1 when none).
RECURSIVE ClosingAt(_, _)
ClosingAt(text, p) ==
    IF p > Len(text) \/ text[p] = ")" THEN p ELSE ClosingAt(text, p + 1)

\* The speaker pattern matched at position i: a letter at a word boundary,
\* name characters up to whitespace before "(", a non-empty content without
\* ")" and the closing ")".
SpeakerMatchAt(text, i) ==
    LET open == NameEnd(text, i + 1)
        close == ClosingAt(text, open + 1)
        ok == /\ IsNameStart(text[i])
              /\ (i = 1 \/ ~IsWordChar(text[i - 1]))
              /\ open <= Len(text)
              /\ text[open] = "("
              /\ open >= i + 2
              /\ text[open - 1] \in Whitespace
              /\ close <= Len(text)
              /\ close > open + 1
    IN  [ok |-> ok,
         end |-> close,
         content |-> IF ok THEN SubSeq(text, open + 1, close - 1) ELSE <<>>]

\* re.findall(pattern, text), second group of each match, from position i
RECURSIVE FindSpeakerParties(_, _)
FindSpeakerParties(text, i) ==
    IF i > Len(text) THEN <<>>
    ELSE LET m == SpeakerMatchAt(text, i)
         IN  IF m.ok
             THEN <<m.content>> \o FindSpeakerParties(text, m.end + 1)
             ELSE FindSpeakerParties(text, i + 1)

\* [match[1].strip() for match in matches]
StripAll(contents) == [k \in 1..Len(contents) |-> Strip(contents[k])]

\* The elements of a list without repetition, in the order of their first
\* occurrence (the key order of a Counter).
RECURSIVE FirstOccurrences(_)
FirstOccurrences(names) ==
    IF names = <<>> THEN <<>>
    ELSE LET rest == FirstOccurrences(SubSeq(names, 1, Len(names) - 1))
             last == names[Len(names)]
         IN  IF \E k \in 1..Len(rest) : rest[k] = last
             THEN rest
             ELSE Append(rest, last)

\* Counter(names): one entry per distinct name, in key order
Counter(names) ==
    LET keys == FirstOccurrences(names)
    IN  [k \in 1..Len(keys) |->
            [name |-> keys[k],
             count |-> Cardinality({j \in 1..Len(names) : names[j] = keys[k]})]]

\* sum(party_counts.values())
RECURSIVE SumCounts(_)
SumCounts(counts) ==
    IF counts = <<>> THEN 0 ELSE Head(counts).count + SumCounts(Tail(counts))

\* extract_from_protocol_text: MIN_MENTIONS
MIN_MENTIONS == 2

\* Variant of MinMentions: a single mention is enough.
MinMentionsOne(party_counts) == party_counts

\* The entries of the Counter with count >= MIN_MENTIONS
MinMentions(party_counts) ==
    LET Enough(entry) == entry.count >= MIN_MENTIONS
    IN  SelectSeq(party_counts, Enough)

\* re.findall(r"\b[A-ZÄÖÜ]{3,}\b", upper_text) as a set: the runs of three
\* or more capital letters that are whole words
SignificantWords(upper_text) ==
    { SubSeq(upper_text, a, b) :
        <<a, b>> \in
          { ab \in (1..Len(upper_text)) \X (1..Len(upper_text)) :
              /\ ab[2] - ab[1] >= 2
              /\ \A i \in ab[1]..ab[2] : IsUpper(upper_text[i])
              /\ (ab[1] = 1 \/ ~IsWordChar(upper_text[ab[1] - 1]))
              /\ (ab[2] = Len(upper_text) \/ ~IsWordChar(upper_text[ab[2] + 1])) } }

\* PartyExtractor._are_related_parties
are_related_parties(party1, party2) ==
    LET words1 == SignificantWords(Upper(party1))
        words2 == SignificantWords(Upper(party2))
        shared_words == words1 \cap words2
        meaningful_shared ==
            shared_words \ { <<"D","I","E">>, <<"D","E","R">>, <<"D","A","S">>, <<"U","N","D">>, <<"V","O","N">> }
    IN  meaningful_shared # {}

\* Variant of MergesParties: only the substring test, no shared words.
MergesPartiesBySubstringOnly(party1, party2) ==
    \/ Contains(Upper(party1), Upper(party2))
    \/ Contains(Upper(party2), Upper(party1))

\* The test of _group_related_parties that unions two parties
MergesParties(party1, party2) ==
    \/ Contains(Upper(party1), Upper(party2))
    \/ Contains(Upper(party2), Upper(party1))
    \/ are_related_parties(party1, party2)

\* find(party) of _group_related_parties; parent maps positions of the
\* list of parties to positions (path compression changes no root)
RECURSIVE find(_, _)
find(parent, party) ==
    IF parent[party] # party THEN find(parent, parent[party]) ELSE party

\* Variant of PrefersRoot1: the more frequent root wins, whatever its form.
PrefersRoot1ByCount(e1, e2) == e1.count >= e2.count

\* The comparison of union: (has "/", length, count) of root1 is at least
\* that of root2, as Python compares tuples
PrefersRoot1(e1, e2) ==
    LET s1 == IF Contains(<<"/">>, e1.name) THEN 1 ELSE 0
        s2 == IF Contains(<<"/">>, e2.name) THEN 1 ELSE 0
    IN  \/ s1 > s2
        \/ s1 = s2 /\ Len(e1.name) > Len(e2.name)
        \/ s1 = s2 /\ Len(e1.name) = Len(e2.name) /\ e1.count >= e2.count

\* union(party1, party2) of _group_related_parties
union(party_counts, parent, party1, party2) ==
    LET root1 == find(parent, party1)
        root2 == find(parent, party2)
    IN  IF root1 = root2 THEN parent
        ELSE IF PrefersRoot1(party_counts[root1], party_counts[root2])
        THEN [parent EXCEPT ![root2] = root1]
        ELSE [parent EXCEPT ![root1] = root2]

\* The double loop of _group_related_parties from the pair (i, j) on
RECURSIVE UnionRelatedPairs(_, _, _, _)
UnionRelatedPairs(party_counts, parent, i, j) ==
    IF i > Len(party_counts) THEN parent
    ELSE IF j > Len(party_counts)
    THEN UnionRelatedPairs(party_counts, parent, i + 1, i + 2)
    ELSE UnionRelatedPairs(
            party_counts,
            IF MergesParties(party_counts[i].name, party_counts[j].name)
            THEN union(party_counts, parent, i, j)
            ELSE parent,
            i, j + 1)

\* PartyExtractor._group_related_parties: the roots in the order in which
\* the dict `groups` receives them, each with the positions of its members
group_related_parties(party_counts) ==
    LET n == Len(party_counts)
        parent == UnionRelatedPairs(party_counts, [p \in 1..n |-> p], 1, 2)
        roots == FirstOccurrences([p \in 1..n |-> find(parent, p)])
    IN  [g \in 1..Len(roots) |->
            [root |-> roots[g],
             members |-> {p \in 1..n : find(parent, p) = roots[g]}]]

\* sum(filtered_party_counts[name] for name in related_names)
RECURSIVE SumMembers(_, _)
SumMembers(party_counts, members) ==
    IF members = {} THEN 0
    ELSE LET p == CHOOSE q \in members : TRUE
         IN  party_counts[p].count + SumMembers(party_counts, members \ {p})

\* Variant of BuildFractions: only the representative is listed as a
\* variation.
BuildFractionsRootOnly(party_counts, party_groups) ==
    [g \in 1..Len(party_groups) |->
        [name |-> party_counts[party_groups[g].root].name,
         variations |-> {party_counts[party_groups[g].root].name},
         mention_count |-> SumMembers(party_counts, party_groups[g].members)]]

\* The fractions list before it is sorted.  `variations` is the set of the
\* names; the code stores it as the sorted list of that set.
BuildFractions(party_counts, party_groups) ==
    [g \in 1..Len(party_groups) |->
        [name |-> party_counts[party_groups[g].root].name,
         variations |-> {party_counts[p].name : p \in party_groups[g].members},
         mention_count |-> SumMembers(party_counts, party_groups[g].members)]]

\* fractions.sort(key=lambda f: f["mention_count"], reverse=True): a stable
\* sort, fractions of equal count keep their order
RECURSIVE SortByMentions(_)
SortByMentions(fractions) ==
    IF fractions = <<>> THEN <<>>
    ELSE LET top == CHOOSE k \in 1..Len(fractions) :
                      /\ \A j \in 1..Len(fractions) :
                            fractions[j].mention_count <= fractions[k].mention_count
                      /\ \A j \in 1..(k - 1) :
                            fractions[j].mention_count < fractions[k].mention_count
         IN  <<fractions[top]>> \o
             SortByMentions(SubSeq(fractions, 1, top - 1) \o
                            SubSeq(fractions, top + 1, Len(fractions)))

\* Variant of calculate_confidence: three groups are enough for `high`.
calculate_confidence_three_groups(num_fractions, total_mentions) ==
    IF num_fractions >= 3 \/ (num_fractions >= 2 /\ total_mentions >= 20)
    THEN "high"
    ELSE IF num_fractions >= 2 \/ total_mentions >= 10
    THEN "medium"
    ELSE "low"

\* PartyExtractor._calculate_confidence, of len(fractions) and
\* sum(party_counts.values())
calculate_confidence(num_fractions, total_mentions) ==
    IF num_fractions >= 4 \/ (num_fractions >= 2 /\ total_mentions >= 20)
    THEN "high"
    ELSE IF num_fractions >= 2 \/ total_mentions >= 10
    THEN "medium"
    ELSE "low"

\* PartyExtractor._empty_result (extracted_at, the time of the call, is
\* left out of every result)
empty_result ==
    [fractions |-> <<>>, extraction_source |-> "none", confidence |-> "low"]

\* Variant of extract_from_protocol_text: a text without accepted
\* candidates yields a protocol_text result with no fractions.
extract_without_empty_result(text) ==
    LET candidates == StripAll(FindSpeakerParties(text, 1))
        party_candidates == SelectSeq(candidates, is_likely_party)
        party_counts == Counter(party_candidates)
        filtered_party_counts == MinMentions(party_counts)
        party_groups == group_related_parties(filtered_party_counts)
        fractions ==
            SortByMentions(BuildFractions(filtered_party_counts, party_groups))
    IN  [candidates |-> candidates,
         party_counts |-> party_counts,
         filtered_party_counts |-> filtered_party_counts,
         result |->
            [fractions |-> fractions,
             extraction_source |-> "protocol_text",
             confidence |->
                calculate_confidence(Len(fractions),
                                     SumCounts(filtered_party_counts))]]

\* PartyExtractor.extract_from_protocol_text: the result, and the locals
\* candidates, party_counts and filtered_party_counts
extract_from_protocol_text(text) ==
    LET candidates ==
            IF text = <<>> THEN <<>> ELSE StripAll(FindSpeakerParties(text, 1))
        party_candidates == SelectSeq(candidates, is_likely_party)
        party_counts == Counter(party_candidates)
        filtered_party_counts == MinMentions(party_counts)
        party_groups == group_related_parties(filtered_party_counts)
        fractions ==
            SortByMentions(BuildFractions(filtered_party_counts, party_groups))
    IN  [candidates |-> candidates,
         party_counts |-> party_counts,
         filtered_party_counts |-> filtered_party_counts,
         result |->
            IF text = <<>> \/ party_candidates = <<>>
               \/ filtered_party_counts = <<>>
            THEN empty_result
            ELSE [fractions |-> fractions,
                  extraction_source |-> "protocol_text",
                  confidence |->
                     calculate_confidence(Len(fractions),
                                          SumCounts(filtered_party_counts))]]

(***************************************************************************)
(* Inputs: candidate documents (NodeWithScore), queries, the answers of    *)
(* the language model and of the vector index.                             *)
(***************************************************************************)
NoEmbedding == [present |-> FALSE, vec |-> <<>>]
Embedding(vec) == [present |-> TRUE, vec |-> vec]

Node(id, score, metadata, embedding) ==
    [id |-> id, score |-> score, metadata |-> metadata, embedding |-> embedding]

NodePool ==
    { Node("n1", 90, [legislature_period |-> PyInt(20)], Embedding(<<1, 0>>)),
      Node("n2", 70, [document_number |-> <<"2","0","/","1">>], Embedding(<<3, 1>>)),
      Node("n3", 90, [legislature_period |-> PyText(<<"2","1">>),
                      document_number |-> <<"2","0","/","9">>], Embedding(<<3, 2>>)),
      Node("n4", 70, [legislature_period |-> PyInt(0),
                      document_number |-> <<"x">>], NoEmbedding),
      Node("n5", 60, [legislature_period |-> PyInt(20)], Embedding(<<0, 0>>)) }

NodeLists == UNION {[1..n -> NodePool] : n \in 0..MaxNodes}

Queries ==
    { <<>>,
      <<" "," ">>,
      <<"w","h","a","t"," ","n","o","w">>,
      <<"L","a","s","t"," ","n","o","w">>,
      <<"n","o","w","s">>,
      <<"w","p","2","0"," ","p","a","r","t","y">>,
      <<"d","i","e"," ","p","a","r","t","e","i">>,
      <<"x","y","z">>,
      <<"o","l","d"," ","n","e","w">>,
      <<"l","a","s","t","l","y"," ","n","o","w">> }

\* The values QueryRewriter.rewrite and should_rewrite are called with: no
\* query, a number, and texts with every combination of keyword kinds.
RewriterQueries ==
    {PyNone, PyInt(0), PyInt(7)}
      \cup {PyText(q) : q \in Queries}
      \cup {PyText(q) : q \in
              { <<" ">>, <<" ","n","o","w"," ">>, <<"N","O","W">>, <<"l","a","s","t"," ","p","a","r","t","y">>, <<"d","i","e"," ","P","a","r","t","e","i"," ","l","a","s","t">>,
                <<"D","i","e"," ","P","a","r","t","e","i"," ","j","e","t","z","t">>, <<"g","r","o","u","p">>, <<"t","h","e"," ","n","e","w"," ","p","a","r","t","y">>,
                <<"o","l","d"," ","g","r","o","u","p"," ","n","e","w">>, <<"w","e","r">>, <<"w","h","a","t"," ","l","a","s","t">>, <<"W","P","2","1">>,
                <<"L","a","s","t"," ","P","a","r","t","y"," ","n","o","w">>, <<"f","o","r","m","e","r"," ","p","a","r","t","y">>, <<"f","o","r","m","e","r">>, <<"p","a","r","t","y"," ","t","o","d","a","y">>,
                <<"F","o","r","m","e","r"," ","P","a","r","t","y"," ","t","o","d","a","y">> }}

\* The queries the postprocessor is called with.
PostprocessQueries ==
    { <<"w","h","a","t"," ","n","o","w">>, <<"L","a","s","t"," ","n","o","w">>, <<"w","p","2","0"," ","p","a","r","t","y">>, <<"x","y","z">>, <<"o","l","d"," ","n","e","w">> }

NoQueryBundle == [present |-> FALSE, query_str |-> <<>>]
QueryBundle(query_str) == [present |-> TRUE, query_str |-> query_str]
QueryBundles == {NoQueryBundle} \cup {QueryBundle(q) : q \in PostprocessQueries}

LlmRaises == [raised |-> TRUE, text |-> <<>>]
LlmAnswers(text) == [raised |-> FALSE, text |-> text]
LlmOutcomes == { LlmRaises, LlmAnswers(<<" ","y","e","s">>), LlmAnswers(<<"n","o"," ","y","e","s">>) }

IndexRaises == [raised |-> TRUE, nodes |-> <<>>]
IndexReturns(nodes) == [raised |-> FALSE, nodes |-> nodes]
IndexOutcomes ==
    { IndexRaises, IndexReturns(<<>>) }
      \cup {IndexReturns(<<n>>) : n \in {m \in NodePool : m.id \in {"n1", "n3"}}}

\* Protocol texts: speaker attributions "A. Bc (PARTY) x. " in a row.
Mention(party) == <<"A","."," ","B","c"," ","(">> \o party \o <<")"," ","x","."," ">>

Repeated(party, n) == [k \in 1..n |-> party]

ProtocolOf(parties) == Flatten([k \in 1..Len(parties) |-> Mention(parties[k])])

PartyPool ==
    << <<"C","D","U">>, <<"C","S","U">>, <<"C","D","U","/","C","S","U">>, <<"D","I","E"," ","L","I","N","K","E">>, <<"L","i","n","k","e","/","P","D","S">>, <<"S","P","D">> >>

\* The order in which the parties of the pool are first mentioned.
PoolOrders == { <<1, 2, 3, 4, 5, 6>>, <<6, 5, 4, 3, 2, 1>> }

\* The protocol in which party k of the pool is mentioned counts[k] times.
PooledProtocol(counts, order) ==
    ProtocolOf(Flatten([k \in 1..Len(order) |->
                          Repeated(PartyPool[order[k]], counts[order[k]])]))

\* Protocols with many mentions, with rejected candidates, and with
\* parentheses the speaker pattern does not match.
OtherProtocols ==
    { <<"N","o"," ","s","p","e","a","k","e","r"," ","i","s"," ","n","a","m","e","d"," ","h","e","r","e",".">>,
      <<"(","C","D","U",")"," ","(","C","D","U",")">>,
      <<"A",",","(","C","D","U",")"," ","B",",","(","C","D","U",")">>,
      <<"A"," ","("," ","C","D","U"," ",")"," ","B"," ","(","C","D","U"," ",")">>,
      <<"A"," ","(","B"," ","(","C","D","U",")"," ","C"," ","(","C","D","U",")">>,
      <<"A"," ","(",")"," ","B"," ","(","C","D","U",")"," ","C"," ","(","C","D","U">>,
      ProtocolOf(<< <<"E","U">>, <<"E","U">>, <<"G","a","s","t">>, <<"G","a","s","t">>, <<"S","P","D">> >>),
      ProtocolOf(<< <<"D","I","E"," ","L","I","N","K","E">>, <<"D","I","E"," ","P","A","R","T","E","I">>, <<"D","I","E"," ","L","I","N","K","E">>, <<"D","I","E"," ","P","A","R","T","E","I">> >>),
      ProtocolOf(<< <<"D","i","e"," ","L","i","n","k","e">>, <<"D","I","E"," ","L","I","N","K","E">>, <<"S","P","D">>, <<"S","P","D">> >>),
      ProtocolOf(<< <<"D","i","e"," ","L","i","n","k","e">>, <<"D","I","E"," ","L","I","N","K","E">>, <<"D","I","E"," ","L","I","N","K","E">>, <<"L","i","n","k","e">> >>),
      ProtocolOf(Repeated(<<"D","i","e"," ","L","i","n","k","e">>, 2) \o Repeated(<<"D","I","E"," ","L","I","N","K","E">>, 3)),
      ProtocolOf(Repeated(<<"D","I","E"," ","L","I","N","K","E">>, 3) \o Repeated(<<"D","i","e"," ","L","i","n","k","e">>, 2)),
      ProtocolOf(Repeated(<<"L","I","N","K","E">>, 3) \o Repeated(<<"D","I","E"," ","L","I","N","K","E">>, 2)),
      ProtocolOf(Repeated(<<"D","I","E"," ","L","I","N","K","E">>, 2) \o Repeated(<<"L","I","N","K","E">>, 3)),
      ProtocolOf(Repeated(<<"L","I","N","K","E">>, 2) \o Repeated(<<"D","I","E"," ","L","I","N","K","E">>, 2)
                   \o Repeated(<<"L","i","n","k","e","/","P","D","S">>, 2)),
      ProtocolOf(Repeated(<<"C","D","U">>, 10)),
      ProtocolOf(Repeated(<<"C","D","U">>, 9) \o << <<"S","P","D">> >>),
      ProtocolOf(Repeated(<<"C","D","U">>, 10) \o Repeated(<<"S","P","D">>, 10)),
      ProtocolOf(Repeated(<<"C","D","U">>, 10) \o Repeated(<<"S","P","D">>, 9) \o << <<"A","f","D">> >>),
      ProtocolOf(Repeated(<<"C","D","U">>, 15) \o Repeated(<<"S","P","D">>, 2) \o Repeated(<<"A","f","D">>, 2)),
      ProtocolOf(Repeated(<<"C","D","U">>, 16) \o Repeated(<<"S","P","D">>, 2) \o Repeated(<<"A","f","D">>, 2)),
      ProtocolOf(Repeated(<<"C","D","U">>, 2) \o Repeated(<<"S","P","D">>, 2) \o Repeated(<<"A","f","D">>, 2)
                   \o Repeated(<<"F","D","P">>, 2)),
      ProtocolOf(Repeated(<<"C","D","U">>, 2) \o Repeated(<<"S","P","D">>, 2) \o Repeated(<<"A","f","D">>, 2)
                   \o Repeated(<<"F","D","P">>, 2) \o Repeated(<<"B","S","W">>, 2)) }

\* How often a protocol mentions a party of the pool: never, once (below
\* MIN_MENTIONS) or MaxMentions times.
MentionCounts == {0, 1, MaxMentions}

ProtocolTexts ==
    { PooledProtocol(counts, order) :
        counts \in [1..Len(PartyPool) -> MentionCounts], order \in PoolOrders }
      \cup OtherProtocols

\* The candidates _is_likely_party is called with.
PartyCandidates ==
    { <<"C","D","U","/","C","S","U">>, <<"S","P","D">>, <<"A","f","D">>, <<"D","i","e"," ","L","i","n","k","e">>, <<"B","Ü","N","D","N","I","S"," ","9","0","/","D","I","E"," ","G","R","Ü","N","E","N">>,
      <<"B","u","n","d","e","s","k","a","n","z","l","e","r">>, <<"P","r","ä","s","i","d","e","n","t">>, <<"B","e","r","l","i","n","e","r">>, <<"p","a","r","t","e","i","l","o","s">>,
      <<"T","h","i","s"," ","i","s"," ","a"," ","v","e","r","y"," ","l","o","n","g"," ","t","e","x","t",","," ","n","o"," ","n","a","m","e">>, <<"X">>, <<>>, <<"l","o","w","e","r","c","a","s","e">>,
      <<"E","U">>, <<"U","N","I","O","N">>, <<"C","D","/","C","S">>, <<"D","i","e"," ","L","i">>, <<"B","u","n","d">>, <<"B","u","n","d","e","s">>,
      <<"B","u","n","d","e","s","t">>, <<"B","ü","n","d","n","i","s">>, <<"B","Ü","N","D","N","I","S"," ","9","0">>, <<"D","i","e"," ","l","i","n","k","e">>, <<"D","i","e"," "," ","L","i","n","k","e">>,
      <<"D","i","e"," ","L","i","n","k","e","/","P","D","S">>, <<"L","i","n","k","e","/","P","D","S">>, <<"C","D","U","/","C","S","U","/","S","P","D">>, <<"C","D","U","C","S","U","/","1","2","3">>,
      <<"B","ü","n","d","n","i","s"," ","9","0","/","G","r","ü","n","e">>, <<"B","ü","n","d","n","i","s"," ","9","0","/","D","i","e"," ","G","r","ü","n","e","n">>, <<"S","P","D","2","0","2","4">>, <<"S","o","z","i","a","l","d","e","m","o","k","r","a","t","e","n">>, <<" ","S","P","D"," ">>,
      <<"S","p","d">>, <<"A","1">>, <<"1","2","3","4","5","6","7","8">>, <<"S","P","D"," ","2","1">>, <<"D","i","e"," ","7"," ","Z","w","e","r","g","e">>,
      <<"B","u","n","d","a","b","c","d","e","f","g","h","i","j","k","l","m","n","o","p","q","r","s","t","u">>, <<"B","u","n","d","a","b","c","d","e","f","g","h","i","j","k","l","m","n","o","p","q","r","s","t","u","v">>,
      <<"A","B","/","C","D","E","F","G","H","I","J","K","L","M","N","O","P","Q","R","S","T","U","V","W","X">>, <<"A","B","/","C","D","E","F","G","H","I","J","K","L","M","N","O","P","Q","R","S","T","U","V","W","X","Y">> }

\* HybridFilterConfiguration: thresholds in hundredths, llm is TRUE when an
\* LLM configuration is given.
FastConfiguration ==
    [score_threshold |-> 70, similarity_threshold |-> 90, max_documents |-> 2,
     enable_llm_filter |-> FALSE, llm |-> FALSE]

LlmConfiguration ==
    [score_threshold |-> 70, similarity_threshold |-> 90, max_documents |-> 2,
     enable_llm_filter |-> TRUE, llm |-> TRUE]

LenientConfiguration ==
    [score_threshold |-> 0, similarity_threshold |-> 0, max_documents |-> 1,
     enable_llm_filter |-> TRUE, llm |-> FALSE]

DomainConfigurations == {NoConfig, Bundestag, Archive, Chronicle}

\* The postprocessors under analysis: (temporal_domain_config, configuration)
PostprocessorDeployments ==
    { <<NoConfig, FastConfiguration>>,
      <<NoConfig, LlmConfiguration>>,
      <<Bundestag, FastConfiguration>>,
      <<Bundestag, LlmConfiguration>>,
      <<Archive, LenientConfiguration>> }

TopKs == {5, 10}

(***************************************************************************)
(* State.                                                                  *)
(***************************************************************************)
VARIABLES
    temporal_domain_config,   \* shared by rewriter, retriever, postprocessor
    configuration,            \* the postprocessor's HybridFilterConfiguration
    similarity_top_k,         \* the retriever's similarity_top_k
    keyword_lists,            \* _historical_keywords and _current_keywords of
                              \* the rewriter, the retriever, the postprocessor
    pc,                       \* "idle", "llm" (inside stage 4), "done",
                              \* "retrieved", "rewritten", "checked",
                              \* "extracted", "classified"
    nodes_in,                 \* _postprocess_nodes: argument nodes
    query_bundle,             \* _postprocess_nodes: argument query_bundle
    scored,                   \* local nodes after stage 1
    temporal,                 \* local nodes after stage 2
    applied_historical_filter,
    deduped,                  \* local nodes after stage 3
    llm_outcomes,             \* outcome of each self._llm.complete call so far
    relevant_nodes,           \* _filter_by_llm_relevance: relevant_nodes
    result,                   \* value returned by _postprocess_nodes
    retrieval,                \* record of the last _retrieve call
    rewriting,                \* record of the last rewrite / should_rewrite call
    extraction                \* record of the last PartyExtractor call

vars ==
    << temporal_domain_config, configuration, similarity_top_k, keyword_lists,
       pc, nodes_in, query_bundle, scored, temporal, applied_historical_filter,
       deduped, llm_outcomes, relevant_nodes, result, retrieval, rewriting,
       extraction >>

deployment ==
    << temporal_domain_config, configuration, similarity_top_k, keyword_lists >>

\* The keyword lists the three constructors build from the configuration.
ComponentKeywordLists(cfg) ==
    [rewriter |-> [historical |-> RewriterHistoricalKeywords(cfg),
                   current |-> RewriterCurrentKeywords(cfg)],
     retriever |-> [historical |-> RetrieverHistoricalKeywords(cfg),
                    current |-> RetrieverCurrentKeywords(cfg)],
     postprocessor |-> [historical |-> PostprocessorHistoricalKeywords(cfg),
                        current |-> PostprocessorCurrentKeywords(cfg)]]

NoExtraction ==
    [called |-> "none", text |-> <<>>, candidates |-> <<>>,
     party_counts |-> <<>>, filtered_party_counts |-> <<>>,
     result |-> empty_result, likely |-> FALSE]

NoRewriting ==
    [called |-> "none", query |-> PyNone, raised |-> FALSE,
     rewritten |-> PyNone, should |-> FALSE]

NoRetrieval ==
    [called |-> FALSE, original_query |-> <<>>, filter_mode |-> "none",
     index_calls |-> <<>>, raised |-> FALSE, nodes |-> <<>>,
     index_outcomes |-> <<>>]

Idle ==
    /\ pc = "idle"
    /\ nodes_in = <<>>
    /\ query_bundle = NoQueryBundle
    /\ scored = <<>>
    /\ temporal = <<>>
    /\ applied_historical_filter = FALSE
    /\ deduped = <<>>
    /\ llm_outcomes = <<>>
    /\ relevant_nodes = <<>>
    /\ result = <<>>
    /\ retrieval = NoRetrieval
    /\ rewriting = NoRewriting
    /\ extraction = NoExtraction

\* HybridFilterPostprocessor.__init__
InitPostprocessor ==
    /\ \E d \in PostprocessorDeployments :
          /\ temporal_domain_config = d[1]
          /\ configuration = d[2]
    /\ similarity_top_k = 10
    /\ keyword_lists = ComponentKeywordLists(temporal_domain_config)
    /\ Idle

\* DynamicTemporalRetriever.__init__ (with its own QueryRewriter)
InitRetriever ==
    /\ temporal_domain_config \in DomainConfigurations
    /\ configuration = FastConfiguration
    /\ similarity_top_k \in TopKs
    /\ keyword_lists = ComponentKeywordLists(temporal_domain_config)
    /\ Idle

\* QueryRewriter.__init__
InitRewriter ==
    /\ temporal_domain_config \in DomainConfigurations
    /\ configuration = FastConfiguration
    /\ similarity_top_k = 10
    /\ keyword_lists = ComponentKeywordLists(temporal_domain_config)
    /\ Idle

\* PartyExtractor has class methods only and no state of its own.
InitExtractor ==
    /\ temporal_domain_config = NoConfig
    /\ configuration = FastConfiguration
    /\ similarity_top_k = 10
    /\ keyword_lists = ComponentKeywordLists(temporal_domain_config)
    /\ Idle

Init == InitPostprocessor \/ InitRetriever \/ InitRewriter \/ InitExtractor

(***************************************************************************)
(* HybridFilterPostprocessor._postprocess_nodes.  Stages 1 to 3 are        *)
(* computed on entry; each call of the language model in stage 4 is a step *)
(* of its own, and the step of the last call also applies the cap.         *)
(***************************************************************************)
PostprocessNodes(nodes, qb) ==
    /\ pc = "idle"
    /\ nodes_in' = nodes
    /\ query_bundle' = qb
    /\ llm_outcomes' = <<>>
    /\ relevant_nodes' = <<>>
    /\ IF nodes = <<>>
       THEN /\ scored' = <<>>
            /\ temporal' = <<>>
            /\ applied_historical_filter' = FALSE
            /\ deduped' = <<>>
            /\ result' = nodes
            /\ pc' = "done"
       ELSE LET st == Stages(temporal_domain_config, configuration, nodes, qb)
            IN  /\ scored' = st.scored
                /\ temporal' = st.temporal
                /\ applied_historical_filter' = st.applied_historical_filter
                /\ deduped' = st.deduped
                /\ IF /\ RunsLlmFilter(configuration, qb,
                                       st.applied_historical_filter)
                      /\ st.deduped # <<>>
                   THEN /\ pc' = "llm"
                        /\ result' = <<>>
                   ELSE /\ pc' = "done"
                        /\ result' = Take(st.deduped, configuration.max_documents)
    /\ UNCHANGED << deployment, retrieval, rewriting, extraction >>

LlmComplete(outcome) ==
    /\ pc = "llm"
    /\ LET i == Len(llm_outcomes) + 1
           kept == IF LlmKeeps(outcome)
                   THEN Append(relevant_nodes, deduped[i])
                   ELSE relevant_nodes
       IN  /\ llm_outcomes' = Append(llm_outcomes, outcome)
           /\ relevant_nodes' = kept
           /\ IF i = Len(deduped)
              THEN /\ pc' = "done"
                   /\ result' = Take(kept, configuration.max_documents)
              ELSE /\ pc' = "llm"
                   /\ result' = <<>>
    /\ UNCHANGED << deployment, nodes_in, query_bundle, scored, temporal,
                    applied_historical_filter, deduped, retrieval, rewriting,
                    extraction >>

(***************************************************************************)
(* DynamicTemporalRetriever._retrieve.  index_outcomes is what the vector  *)
(* index answers to the first, second, ... retrieve call it receives.      *)
(***************************************************************************)
\* Variant of retrieve: the filter mode is determined from the rewritten
\* query.
retrieve_mode_from_rewritten(cfg, top_k, original_query, index_outcomes) ==
    LET filter_mode ==
            get_temporal_filter_mode(cfg, SearchText(cfg, original_query))
        call == [arguments |-> RetrieverArguments(cfg, top_k, filter_mode),
                 query_str |-> SearchText(cfg, original_query)]
    IN  [called |-> TRUE,
         original_query |-> original_query,
         filter_mode |-> filter_mode,
         index_calls |-> <<call>>,
         raised |-> index_outcomes[1].raised,
         nodes |-> index_outcomes[1].nodes,
         index_outcomes |-> index_outcomes]

\* Variant of retrieve: a failed index call is retried once.
retrieve_with_retry(cfg, top_k, original_query, index_outcomes) ==
    LET filter_mode == get_temporal_filter_mode(cfg, original_query)
        call == [arguments |-> RetrieverArguments(cfg, top_k, filter_mode),
                 query_str |-> SearchText(cfg, original_query)]
        answer == IF index_outcomes[1].raised THEN 2 ELSE 1
    IN  [called |-> TRUE,
         original_query |-> original_query,
         filter_mode |-> filter_mode,
         index_calls |-> IF answer = 2 THEN <<call, call>> ELSE <<call>>,
         raised |-> index_outcomes[answer].raised,
         nodes |-> index_outcomes[answer].nodes,
         index_outcomes |-> index_outcomes]

retrieve(cfg, top_k, original_query, index_outcomes) ==
    LET filter_mode == get_temporal_filter_mode(cfg, original_query)
        call == [arguments |-> RetrieverArguments(cfg, top_k, filter_mode),
                 query_str |-> SearchText(cfg, original_query)]
    IN  [called |-> TRUE,
         original_query |-> original_query,
         filter_mode |-> filter_mode,
         index_calls |-> <<call>>,
         raised |-> index_outcomes[1].raised,
         nodes |-> index_outcomes[1].nodes,
         index_outcomes |-> index_outcomes]

Retrieve(original_query, index_outcomes) ==
    /\ pc = "idle"
    /\ retrieval' = retrieve(temporal_domain_config, similarity_top_k,
                             original_query, index_outcomes)
    /\ pc' = "retrieved"
    /\ UNCHANGED << deployment, nodes_in, query_bundle, scored, temporal,
                    applied_historical_filter, deduped, llm_outcomes,
                    relevant_nodes, result, rewriting, extraction >>

\* Variant of Rewrite: the call appends the entity-trigger words to the
\* rewriter's own historical keyword list.
RewriteExtendingKeywords(query) ==
    /\ pc = "idle"
    /\ LET outcome == rewrite_call(temporal_domain_config, query)
       IN  rewriting' = [called |-> "rewrite", query |-> query,
                         raised |-> outcome.raised,
                         rewritten |-> outcome.value, should |-> FALSE]
    /\ pc' = "rewritten"
    /\ keyword_lists' =
          [keyword_lists EXCEPT
              !.rewriter.historical = @ \o extract_entity_keywords_from_config]
    /\ UNCHANGED << temporal_domain_config, configuration, similarity_top_k,
                    nodes_in, query_bundle, scored, temporal,
                    applied_historical_filter, deduped, llm_outcomes,
                    relevant_nodes, result, retrieval, extraction >>

\* QueryRewriter.rewrite(query)
Rewrite(query) ==
    /\ pc = "idle"
    /\ LET outcome == rewrite_call(temporal_domain_config, query)
       IN  rewriting' = [called |-> "rewrite", query |-> query,
                         raised |-> outcome.raised,
                         rewritten |-> outcome.value, should |-> FALSE]
    /\ pc' = "rewritten"
    /\ UNCHANGED << deployment, nodes_in, query_bundle, scored, temporal,
                    applied_historical_filter, deduped, llm_outcomes,
                    relevant_nodes, result, retrieval, extraction >>

\* QueryRewriter.should_rewrite(query)
ShouldRewrite(query) ==
    /\ pc = "idle"
    /\ LET outcome == should_rewrite_call(temporal_domain_config, query)
       IN  rewriting' = [called |-> "should_rewrite", query |-> query,
                         raised |-> outcome.raised,
                         rewritten |-> PyNone, should |-> outcome.value]
    /\ pc' = "checked"
    /\ UNCHANGED << deployment, nodes_in, query_bundle, scored, temporal,
                    applied_historical_filter, deduped, llm_outcomes,
                    relevant_nodes, result, retrieval, extraction >>

\* PartyExtractor.extract_from_protocol_text(text)
ExtractFromProtocolText(text) ==
    /\ pc = "idle"
    /\ LET e == extract_from_protocol_text(text)
       IN  extraction' = [called |-> "extract_from_protocol_text",
                          text |-> text,
                          candidates |-> e.candidates,
                          party_counts |-> e.party_counts,
                          filtered_party_counts |-> e.filtered_party_counts,
                          result |-> e.result,
                          likely |-> FALSE]
    /\ pc' = "extracted"
    /\ UNCHANGED << deployment, nodes_in, query_bundle, scored, temporal,
                    applied_historical_filter, deduped, llm_outcomes,
                    relevant_nodes, result, retrieval, rewriting >>

\* PartyExtractor._is_likely_party(text)
IsLikelyParty(text) ==
    /\ pc = "idle"
    /\ extraction' = [NoExtraction EXCEPT !.called = "is_likely_party",
                                          !.text = text,
                                          !.likely = is_likely_party(text)]
    /\ pc' = "classified"
    /\ UNCHANGED << deployment, nodes_in, query_bundle, scored, temporal,
                    applied_historical_filter, deduped, llm_outcomes,
                    relevant_nodes, result, retrieval, rewriting >>

\* The call has returned (or raised) to its caller: its frame is gone and
\* the component is ready for the next call.
Return ==
    /\ pc \in {"done", "retrieved", "rewritten", "checked", "extracted",
              "classified"}
    /\ pc' = "idle"
    /\ nodes_in' = <<>>
    /\ query_bundle' = NoQueryBundle
    /\ scored' = <<>>
    /\ temporal' = <<>>
    /\ applied_historical_filter' = FALSE
    /\ deduped' = <<>>
    /\ llm_outcomes' = <<>>
    /\ relevant_nodes' = <<>>
    /\ result' = <<>>
    /\ retrieval' = NoRetrieval
    /\ rewriting' = NoRewriting
    /\ extraction' = NoExtraction
    /\ UNCHANGED deployment

NextPostprocessor ==
    \/ /\ pc = "idle"
       /\ \E nodes \in NodeLists, qb \in QueryBundles : PostprocessNodes(nodes, qb)
    \/ /\ pc = "llm"
       /\ \E outcome \in LlmOutcomes : LlmComplete(outcome)
    \/ Return

NextRetriever ==
    \/ /\ pc = "idle"
       /\ \E q \in Queries, o1 \in IndexOutcomes, o2 \in IndexOutcomes :
             Retrieve(q, <<o1, o2>>)
    \/ Return

NextRewriter ==
    \/ /\ pc = "idle"
       /\ \E q \in RewriterQueries : Rewrite(q)
    \/ /\ pc = "idle"
       /\ \E q \in RewriterQueries : ShouldRewrite(q)
    \/ Return

NextExtractor ==
    \/ /\ pc = "idle"
       /\ \E text \in ProtocolTexts : ExtractFromProtocolText(text)
    \/ /\ pc = "idle"
       /\ \E text \in PartyCandidates : IsLikelyParty(text)
    \/ Return

Next == NextPostprocessor \/ NextRetriever \/ NextRewriter \/ NextExtractor

Spec == Init /\ [][Next]_vars

\* The postprocessor alone, and the retriever (with its rewriter) alone.
SpecPostprocessor == InitPostprocessor /\ [][NextPostprocessor]_vars

SpecRetriever == InitRetriever /\ [][NextRetriever]_vars

SpecRewriter == InitRewriter /\ [][NextRewriter]_vars

SpecExtractor == InitExtractor /\ [][NextExtractor]_vars


(***************************************************************************)
(* Properties of the postprocessor.                                        *)
(***************************************************************************)
\* Stages 1 to 3 of the current _postprocess_nodes call have run.
StagesRan == pc \in {"llm", "done"} /\ nodes_in # <<>>

\* Stage 2 was entered with a Domain Configuration.
TemporalStageRan ==
    StagesRan /\ query_bundle.present /\ temporal_domain_config.present

\* A historical (current) keyword of the configuration occurs in the query
\* of the call, as a case-insensitive substring.
HistoricalKeywordInQuery ==
    \E k \in 1..Len(get_all_historical_keywords(temporal_domain_config)) :
        Contains(Lower(get_all_historical_keywords(temporal_domain_config)[k]),
                 Lower(query_bundle.query_str))

CurrentKeywordInQuery ==
    \E k \in 1..Len(get_all_current_keywords(temporal_domain_config)) :
        Contains(Lower(get_all_current_keywords(temporal_domain_config)[k]),
                 Lower(query_bundle.query_str))

HistoricalTarget == PyStr(historical_period_value(temporal_domain_config))
CurrentTarget == PyStr(current_period_value(temporal_domain_config))

\* The resolved period of a document as the specification words it: the
\* temporal metadata field as a string, or, when that field is empty, the
\* part of document_number before the first "/"; empty when neither exists.
PeriodAsSpecified(node) ==
    LET field_name == temporal_field_name(temporal_domain_config)
        md == node.metadata
        number == IF "document_number" \in DOMAIN md
                  THEN md["document_number"] ELSE <<>>
        slashes == {i \in 1..Len(number) : number[i] = "/"}
    IN  IF field_name \in DOMAIN md /\ Truthy(md[field_name])
        THEN PyStr(md[field_name])
        ELSE IF slashes # {}
        THEN SubSeq(number, 1,
                    (CHOOSE i \in slashes : \A j \in slashes : i <= j) - 1)
        ELSE <<>>

IsHistoricalDocument(node) == PeriodAsSpecified(node) = HistoricalTarget

IsCurrentOrUnknownDocument(node) ==
    \/ PeriodAsSpecified(node) = CurrentTarget
    \/ PeriodAsSpecified(node) = <<>>

\* C1: Temporal-filter failsafe.  Whenever a historical or current keyword
\* matched the query but no document of the non-empty input of the temporal
\* stage would be kept, the stage returns its input unchanged (same
\* documents, same order, never empty) and reports no historical filter.
C1_TemporalFailsafe ==
    ( /\ TemporalStageRan
      /\ scored # <<>>
      /\ \/ /\ HistoricalKeywordInQuery
            /\ \A i \in 1..Len(scored) : ~IsHistoricalDocument(scored[i])
         \/ /\ ~HistoricalKeywordInQuery
            /\ CurrentKeywordInQuery
            /\ \A i \in 1..Len(scored) : ~IsCurrentOrUnknownDocument(scored[i]) )
    => /\ temporal = scored
       /\ temporal # <<>>
       /\ applied_historical_filter = FALSE

\* A historical query over documents none of which is of the historical
\* period: the failsafe has restored the list.
C1_Witness ==
    /\ TemporalStageRan
    /\ pc = "done"
    /\ HistoricalKeywordInQuery
    /\ Len(scored) >= 2
    /\ \A i \in 1..Len(scored) : ~IsHistoricalDocument(scored[i])
    /\ temporal = scored
    /\ applied_historical_filter = FALSE

\* C9: Historical temporal filter.  When the query contains a historical
\* keyword and at least one input document's resolved period equals the
\* historical period value (as strings), the temporal stage keeps exactly
\* the documents whose resolved period equals that value, in input order,
\* and reports a strict historical filter as applied.
C9_HistoricalFilter ==
    ( /\ TemporalStageRan
      /\ HistoricalKeywordInQuery
      /\ \E i \in 1..Len(scored) : IsHistoricalDocument(scored[i]) )
    => /\ temporal = SelectSeq(scored, IsHistoricalDocument)
       /\ applied_historical_filter = TRUE

\* A historical filter that kept a document by its metadata field and one by
\* its document_number, and removed a document of unknown period.
C9_Witness ==
    /\ TemporalStageRan
    /\ HistoricalKeywordInQuery
    /\ applied_historical_filter
    /\ Len(temporal) = 2
    /\ temporal[1].id = "n1"
    /\ temporal[2].id = "n2"
    /\ Len(scored) = 3
    /\ \E i \in 1..3 : PeriodAsSpecified(scored[i]) = <<>>

\* C10: Current temporal filter.  When the query contains a current keyword
\* and no historical keyword, the temporal stage keeps exactly the documents
\* whose resolved period equals the current period value or is empty, in
\* input order (the whole input when that would keep nothing), and never
\* reports a strict historical filter.
C10_CurrentFilter ==
    ( /\ TemporalStageRan
      /\ ~HistoricalKeywordInQuery
      /\ CurrentKeywordInQuery )
    => /\ temporal =
            IF SelectSeq(scored, IsCurrentOrUnknownDocument) = <<>>
            THEN scored
            ELSE SelectSeq(scored, IsCurrentOrUnknownDocument)
       /\ applied_historical_filter = FALSE

\* A current filter that removed a historical document and kept a document
\* of unknown period next to one of the current period.
C10_Witness ==
    /\ TemporalStageRan
    /\ ~HistoricalKeywordInQuery
    /\ CurrentKeywordInQuery
    /\ Len(scored) = 3
    /\ Len(temporal) = 2
    /\ \E i \in 1..2 : PeriodAsSpecified(temporal[i]) = <<>>
    /\ \E i \in 1..2 : PeriodAsSpecified(temporal[i]) = CurrentTarget

\* C2: Semantic deduplication.  The output is no longer than the input, and
\* no two documents of the output that both have an embedding have a cosine
\* similarity of similarity_threshold or more.
C2_Deduplication ==
    StagesRan =>
        /\ Len(deduped) <= Len(temporal)
        /\ \A i \in 1..Len(deduped) : \A j \in (i + 1)..Len(deduped) :
              (deduped[i].embedding.present /\ deduped[j].embedding.present)
              => ~CosineAtLeast(deduped[i].embedding.vec, deduped[j].embedding.vec,
                                configuration.similarity_threshold)

\* Deduplication removed the third document, which is similar to the first,
\* across a second document that is not similar to the first.
C2_Witness ==
    /\ StagesRan
    /\ Len(temporal) = 3
    /\ Len(deduped) = 2
    /\ deduped[1] = temporal[1]
    /\ deduped[2] = temporal[2]
    /\ temporal[1].id # temporal[3].id
    /\ temporal[1].embedding.present
    /\ temporal[3].embedding.present
    /\ CosineAtLeast(temporal[1].embedding.vec, temporal[3].embedding.vec,
                     configuration.similarity_threshold)

\* The relevance stage runs in the current call.
RelevanceStageRuns ==
    /\ StagesRan
    /\ configuration.enable_llm_filter
    /\ configuration.llm
    /\ query_bundle.present
    /\ ~applied_historical_filter

\* The keep rule as the specification words it.
KeptByRule(outcome) ==
    \/ outcome.raised
    \/ /\ Len(Strip(outcome.text)) >= 3
       /\ Upper(SubSeq(Strip(outcome.text), 1, 3)) = <<"Y","E","S">>

\* The documents among the first n of the stage's input whose call is kept
\* by the rule, in order.
RECURSIVE KeptAmong(_)
KeptAmong(n) ==
    IF n = 0 THEN <<>>
    ELSE IF KeptByRule(llm_outcomes[n])
    THEN Append(KeptAmong(n - 1), deduped[n])
    ELSE KeptAmong(n - 1)

AboveThreshold(node) == node.score >= configuration.score_threshold

\* Every document of the list has a score of score_threshold or more.
AllAbove(nodes) == \A i \in 1..Len(nodes) : AboveThreshold(nodes[i])

\* C8: Score filter runs first.  Stage 1 keeps exactly the documents with
\* score >= score_threshold, in input order, before any other stage runs: a
\* document below the threshold takes no part in the temporal stage (nor in
\* its failsafe decision) or in deduplication, is never sent to the language
\* model and never appears in the output.
C8_ScoreFilterFirst ==
    StagesRan =>
        /\ scored = SelectSeq(nodes_in, AboveThreshold)
        /\ LET stage2 ==
                   IF query_bundle.present
                   THEN filter_by_temporal_relevance(
                            temporal_domain_config,
                            SelectSeq(nodes_in, AboveThreshold),
                            query_bundle.query_str)
                   ELSE [nodes |-> SelectSeq(nodes_in, AboveThreshold),
                         applied |-> FALSE]
           IN  /\ temporal = stage2.nodes
               /\ applied_historical_filter = stage2.applied
               /\ deduped = deduplicate_semantically(
                                stage2.nodes, configuration.similarity_threshold)
        /\ AllAbove(temporal)
        /\ AllAbove(deduped)
        /\ AllAbove(relevant_nodes)
        /\ AllAbove(result)

\* The only document of the historical period is below the threshold: it is
\* gone before the temporal stage, whose failsafe therefore restores the
\* other documents.
C8_Witness ==
    /\ TemporalStageRan
    /\ pc = "done"
    /\ HistoricalKeywordInQuery
    /\ \E i \in 1..Len(nodes_in) :
          /\ ~AboveThreshold(nodes_in[i])
          /\ IsHistoricalDocument(nodes_in[i])
    /\ \A i \in 1..Len(scored) : ~IsHistoricalDocument(scored[i])
    /\ applied_historical_filter = FALSE
    /\ result # <<>>
    /\ result = Take(scored, configuration.max_documents)

(***************************************************************************)
(* Properties of the retriever.                                            *)
(***************************************************************************)
\* The keyword occurs in the query as a whole word, case-insensitively: an
\* occurrence with no word character directly before or after it.
WholeWordIn(keyword, query) ==
    \E i \in 0..(Len(query) - Len(keyword)) :
        /\ Lower(SubSeq(query, i + 1, i + Len(keyword))) = Lower(keyword)
        /\ i = 0 \/ ~IsWordChar(query[i])
        /\ \/ i + Len(keyword) = Len(query)
           \/ ~IsWordChar(query[i + Len(keyword) + 1])

AnyWholeWordIn(keywords, query) ==
    \E k \in 1..Len(keywords) : WholeWordIn(keywords[k], query)

HistoricalWordInOriginal ==
    AnyWholeWordIn(get_all_historical_keywords(temporal_domain_config),
                   retrieval.original_query)

CurrentWordInOriginal ==
    AnyWholeWordIn(get_all_current_keywords(temporal_domain_config),
                   retrieval.original_query)

\* C4: Retriever mode decision.  With a Domain Configuration the mode is
\* `historical` if any historical keyword matches the query as a whole word,
\* case-insensitively; otherwise `current` if any current keyword so
\* matches; otherwise `none`.  Without a Domain Configuration it is `none`.
C4_FilterMode ==
    retrieval.called =>
        retrieval.filter_mode =
            IF ~temporal_domain_config.present THEN "none"
            ELSE IF HistoricalWordInOriginal THEN "historical"
            ELSE IF CurrentWordInOriginal THEN "current"
            ELSE "none"

\* A query with one historical and one current keyword resolved to
\* `historical`.
C4_Witness ==
    /\ retrieval.called
    /\ temporal_domain_config.present
    /\ HistoricalWordInOriginal
    /\ CurrentWordInOriginal
    /\ retrieval.filter_mode = "historical"

\* The one equality filter on the configured temporal field.
EqualityFilterOn(value) ==
    << [key |-> DictGet(temporal_domain_config.metadata_schema,
                        "temporal_field", "period"),
        value |-> value,
        operator |-> "EQ"] >>

\* C5: Retriever filter construction.  The vector index is asked with the
\* configured similarity_top_k and, in mode `current`, exactly one equality
\* filter on the configured temporal field with the current period value;
\* in mode `historical`, exactly one such filter with the historical period
\* value; in mode `none`, no filter argument at all.
C5_FilterConstruction ==
    retrieval.called =>
        /\ Len(retrieval.index_calls) = 1
        /\ LET arguments == retrieval.index_calls[1].arguments
           IN  /\ arguments.similarity_top_k = similarity_top_k
               /\ retrieval.filter_mode = "current" =>
                     /\ arguments.has_filters
                     /\ arguments.filters = EqualityFilterOn(
                            temporal_domain_config.metadata_schema.current_period)
               /\ retrieval.filter_mode = "historical" =>
                     /\ arguments.has_filters
                     /\ arguments.filters = EqualityFilterOn(
                            temporal_domain_config.metadata_schema.historical_period)
               /\ retrieval.filter_mode = "none" => ~arguments.has_filters
               /\ ~temporal_domain_config.present => ~arguments.has_filters

\* A historical query under the Bundestag configuration: the index was asked
\* with the filter legislature_period == 20.
C5_Witness ==
    /\ retrieval.called
    /\ retrieval.filter_mode = "historical"
    /\ retrieval.index_calls[1].arguments.filters =
          << [key |-> "legislature_period", value |-> PyInt(20),
              operator |-> "EQ"] >>
    /\ retrieval.index_calls[1].arguments.similarity_top_k = 10

\* C6: The filter mode is determined from the original, un-rewritten query,
\* while the text handed to the vector index is the rewritten query whenever
\* rewriting changed it; expansion terms added by the rewriter never change
\* the mode chosen for a query.
C6_ModeFromOriginalQuery ==
    retrieval.called =>
        /\ retrieval.filter_mode =
              get_temporal_filter_mode(temporal_domain_config,
                                       retrieval.original_query)
        /\ retrieval.index_calls[1].query_str =
              rewrite(temporal_domain_config, retrieval.original_query)
        /\ retrieval.index_calls[1].arguments =
              RetrieverArguments(
                  temporal_domain_config, similarity_top_k,
                  get_temporal_filter_mode(temporal_domain_config,
                                           retrieval.original_query))

\* The rewriter appended expansion terms that by themselves would select
\* another mode, and the mode is still that of the original query.
C6_Witness ==
    /\ retrieval.called
    /\ retrieval.index_calls[1].query_str # retrieval.original_query
    /\ StartsWith(retrieval.index_calls[1].query_str, retrieval.original_query)
    /\ retrieval.filter_mode = "none"
    /\ get_temporal_filter_mode(temporal_domain_config,
                                retrieval.index_calls[1].query_str) = "current"

\* C7: The retriever is a pure delegation layer.  Each retrieve call makes
\* exactly one retrieval call on the vector index and returns the list the
\* index returned, unmodified; a failure of the index call propagates to the
\* caller without being caught or retried.
C7_PureDelegation ==
    retrieval.called =>
        /\ Len(retrieval.index_calls) = 1
        /\ retrieval.raised = retrieval.index_outcomes[1].raised
        /\ ~retrieval.raised => retrieval.nodes = retrieval.index_outcomes[1].nodes

\* The index call failed although a second call would have succeeded: the
\* failure reached the caller after a single call.
C7_Witness ==
    /\ retrieval.called
    /\ retrieval.index_outcomes[1].raised
    /\ ~retrieval.index_outcomes[2].raised
    /\ retrieval.index_outcomes[2].nodes # <<>>
    /\ retrieval.raised
    /\ Len(retrieval.index_calls) = 1

(***************************************************************************)
(* Shape of the postprocessor's output.                                    *)
(***************************************************************************)
\* s is an order-preserving sub-list of t.
RECURSIVE IsSubList(_, _)
IsSubList(s, t) ==
    IF s = <<>> THEN TRUE
    ELSE IF t = <<>> THEN FALSE
    ELSE IF Head(s) = Head(t) THEN IsSubList(Tail(s), Tail(t))
    ELSE IsSubList(s, Tail(t))

\* The list left after the relevance stage: its output when the stage ran,
\* the deduplicated list when it was skipped.
AfterRelevanceStage ==
    IF llm_outcomes # <<>> THEN relevant_nodes ELSE deduped

RewriteCalled ==
    /\ rewriting.called = "rewrite"
    /\ rewriting.query.t \in {"none", "str"}

\* The text consists of whitespace only (the empty text included).
IsBlank(text) == \A i \in 1..Len(text) : text[i] = " "

\* C12: rewrite(query) returns its input unchanged and raises no error
\* whenever the query is absent (None), empty or whitespace-only, or no
\* Domain Configuration was supplied.
C12_RewritePassThrough ==
    ( /\ RewriteCalled
      /\ \/ rewriting.query = PyNone
         \/ rewriting.query.t = "str" /\ IsBlank(rewriting.query.s)
         \/ ~temporal_domain_config.present )
    => /\ ~rewriting.raised
       /\ rewriting.rewritten = rewriting.query

\* rewrite was called without a query on a rewriter that has a Domain
\* Configuration, and returned None.
C12_Witness ==
    /\ RewriteCalled
    /\ temporal_domain_config.present
    /\ rewriting.query = PyNone
    /\ ~rewriting.raised
    /\ rewriting.rewritten = PyNone

\* A keyword of the list occurs in the text as a case-insensitive substring.
KeywordOccurs(keywords, text) ==
    \E k \in 1..Len(keywords) : Contains(Lower(keywords[k]), Lower(text))

\* rewrite was called with a text on a rewriter that has a Domain
\* Configuration.
RewriteCalledOnText ==
    /\ rewriting.called = "rewrite"
    /\ rewriting.query.t = "str"
    /\ temporal_domain_config.present

HistoricalKeywordOccurs ==
    KeywordOccurs(get_all_historical_keywords(temporal_domain_config),
                  rewriting.query.s)

CurrentKeywordOccurs ==
    KeywordOccurs(get_all_current_keywords(temporal_domain_config),
                  rewriting.query.s)

\* A word of the fixed entity-trigger vocabulary occurs in the query.
EntityTriggerOccurs ==
    \E w \in { <<"p","a","r","t","y">>, <<"p","a","r","t","i","e","s">>, <<"p","a","r","t","e","i">>, <<"p","a","r","t","e","i","e","n">>, <<"f","r","a","k","t","i","o","n">>,
               <<"f","r","a","k","t","i","o","n","e","n">>, <<"g","r","o","u","p">>, <<"g","r","o","u","p","s">>, <<"f","a","c","t","i","o","n">>, <<"f","a","c","t","i","o","n","s">> } :
        Contains(w, Lower(rewriting.query.s))

EntityTermsConfigured ==
    "entity_terms" \in DOMAIN temporal_domain_config.query_expansion

\* C13 as stated: rewrite(q) = q when q contains no configured keyword (no
\* historical and no current keyword of the configuration occurs in q).
C13_NoKeywordNoop_AsStated ==
    ( /\ RewriteCalledOnText
      /\ ~HistoricalKeywordOccurs
      /\ ~CurrentKeywordOccurs )
    => rewriting.rewritten = rewriting.query

\* C13, amended: rewrite(q) = q when q contains no historical keyword, no
\* current keyword and, if the configuration has an entity_terms expansion,
\* no word of the entity-trigger vocabulary.
C13_NoKeywordNoop ==
    ( /\ RewriteCalledOnText
      /\ ~HistoricalKeywordOccurs
      /\ ~CurrentKeywordOccurs
      /\ ~(EntityTermsConfigured /\ EntityTriggerOccurs) )
    => /\ ~rewriting.raised
       /\ rewriting.rewritten = rewriting.query

\* A query with an entity-trigger word and no temporal keyword came back
\* unchanged from a rewriter whose configuration has no entity_terms.
C13_Witness ==
    /\ RewriteCalledOnText
    /\ ~HistoricalKeywordOccurs
    /\ ~CurrentKeywordOccurs
    /\ EntityTriggerOccurs
    /\ ~EntityTermsConfigured
    /\ ~IsBlank(rewriting.query.s)
    /\ rewriting.rewritten = rewriting.query

\* What the historical and the current expansion branch return for the
\* query of the call.
HistoricalExpansionOfQuery ==
    PyText(expand_historical_query(temporal_domain_config, rewriting.query.s,
                                   Lower(rewriting.query.s)))

CurrentExpansionOfQuery ==
    PyText(expand_temporal_query(temporal_domain_config, rewriting.query.s,
                                 Lower(rewriting.query.s)))

\* C14: Rewriter precedence.  For every query in which a historical keyword
\* occurs as a case-insensitive substring, rewrite returns what the
\* historical expansion branch returns, whatever current keyword or entity
\* trigger is also present; the current expansion is applied only when no
\* historical keyword occurs (two branches that return the same text
\* cannot be told apart by the result).
C14_HistoricalPrecedence ==
    ( /\ RewriteCalledOnText
      /\ ~IsBlank(rewriting.query.s) )
    => /\ HistoricalKeywordOccurs
            => rewriting.rewritten = HistoricalExpansionOfQuery
       /\ ( /\ rewriting.rewritten = CurrentExpansionOfQuery
            /\ rewriting.rewritten # rewriting.query )
            => ~HistoricalKeywordOccurs \/ HistoricalExpansionOfQuery = CurrentExpansionOfQuery

\* A query with a historical keyword, a current keyword and an entity
\* trigger got the historical expansion, which differs from the current one.
C14_Witness ==
    /\ RewriteCalledOnText
    /\ HistoricalKeywordOccurs
    /\ CurrentKeywordOccurs
    /\ EntityTriggerOccurs
    /\ rewriting.rewritten = HistoricalExpansionOfQuery
    /\ rewriting.rewritten # rewriting.query
    /\ CurrentExpansionOfQuery # rewriting.query
    /\ CurrentExpansionOfQuery # HistoricalExpansionOfQuery

\* The detection of rewrite selects a category for the query of the call:
\* a historical keyword, else a current keyword, else an entity trigger
\* when an entity_terms expansion is configured.
RewriteDetectsCategory ==
    /\ temporal_domain_config.present
    /\ rewriting.query.t = "str"
    /\ ~IsBlank(rewriting.query.s)
    /\ \/ HistoricalKeywordOccurs
       \/ CurrentKeywordOccurs
       \/ EntityTermsConfigured /\ EntityTriggerOccurs

\* C15: should_rewrite(query) mirrors the detection of rewrite.  It returns
\* true exactly when rewrite's detection selects a category for the query,
\* and false otherwise.
C15_ShouldRewriteMirrorsRewrite ==
    ( /\ rewriting.called = "should_rewrite"
      /\ rewriting.query.t \in {"none", "str"} )
    => /\ ~rewriting.raised
       /\ rewriting.should = RewriteDetectsCategory

\* The language detected for the query of the call, and the expansion
\* strings of the configuration for it
QueryLanguage == detect_language(temporal_domain_config, rewriting.query.s)

OtherLanguage == IF QueryLanguage = "de" THEN "en" ELSE "de"

\* The template of a category for the detected language, else for the one
\* alternate language
TermsFor(category) ==
    IF get_expansion_terms(temporal_domain_config, category, QueryLanguage) # <<>>
    THEN get_expansion_terms(temporal_domain_config, category, QueryLanguage)
    ELSE get_expansion_terms(temporal_domain_config, category, OtherLanguage)

\* The entity_terms template for the detected language
EntityTermsOfLanguage ==
    get_expansion_terms(temporal_domain_config, "entity_terms", QueryLanguage)

RewriteChoosesHistorical ==
    /\ RewriteCalledOnText
    /\ ~IsBlank(rewriting.query.s)
    /\ HistoricalKeywordOccurs

RewriteChoosesCurrent ==
    /\ RewriteCalledOnText
    /\ ~IsBlank(rewriting.query.s)
    /\ ~HistoricalKeywordOccurs
    /\ CurrentKeywordOccurs

RewriteChoosesEntity ==
    /\ RewriteCalledOnText
    /\ ~IsBlank(rewriting.query.s)
    /\ ~HistoricalKeywordOccurs
    /\ ~CurrentKeywordOccurs
    /\ EntityTermsConfigured
    /\ EntityTriggerOccurs

\* In every result the original query is an unmodified prefix, and the
\* query comes back unmodified when the chosen category has no expansion
\* string
PrefixAndNoExpansion ==
    /\ (rewriting.called = "rewrite" /\ rewriting.query.t = "str") =>
          /\ ~rewriting.raised
          /\ StartsWith(rewriting.rewritten.s, rewriting.query.s)
    /\ (/\ RewriteChoosesHistorical
        /\ TermsFor("temporal_historical") = <<>>
        /\ ~EntityTriggerOccurs \/ EntityTermsOfLanguage = <<>>)
          => rewriting.rewritten = rewriting.query
    /\ (RewriteChoosesCurrent /\ TermsFor("temporal_current") = <<>>)
          => rewriting.rewritten = rewriting.query
    /\ (RewriteChoosesEntity /\ TermsFor("entity_terms") = <<>>)
          => rewriting.rewritten = rewriting.query

\* C26: when rewrite chooses the historical category and the query also
\* contains an entity-trigger word, the result is the query, a space, the
\* historical expansion, a space and the entity_terms expansion (the
\* template of the detected language, else of the one alternate language);
\* in every result the query is an unmodified prefix, and without an
\* expansion string it is unmodified.
C26_HistoricalPlusEntity ==
    /\ PrefixAndNoExpansion
    /\ (/\ RewriteChoosesHistorical
        /\ EntityTriggerOccurs
        /\ TermsFor("entity_terms") # <<>>)
          => rewriting.rewritten.s
               = rewriting.query.s \o <<" ">> \o TermsFor("temporal_historical")
                   \o <<" ">> \o TermsFor("entity_terms")

\* What _expand_historical_query does: the entity_terms template is taken for
\* the detected language only.  With a string there, the result is the query,
\* the historical expansion and that string; without one, the historical
\* expansion alone.
HistoricalPlusEntityOfDetectedLanguage ==
    /\ PrefixAndNoExpansion
    /\ (/\ RewriteChoosesHistorical
        /\ EntityTriggerOccurs
        /\ EntityTermsOfLanguage # <<>>)
          => rewriting.rewritten.s
               = rewriting.query.s \o <<" ">> \o TermsFor("temporal_historical")
                   \o <<" ">> \o EntityTermsOfLanguage
    /\ (/\ RewriteChoosesHistorical
        /\ EntityTriggerOccurs
        /\ EntityTermsOfLanguage = <<>>
        /\ TermsFor("temporal_historical") # <<>>)
          => rewriting.rewritten.s
               = rewriting.query.s \o <<" ">> \o TermsFor("temporal_historical")

\* A historical query with an entity-trigger word was expanded although the
\* entity_terms template has a string only for the other language
EntityTermsOnlyInOtherLanguage ==
    /\ RewriteChoosesHistorical
    /\ EntityTriggerOccurs
    /\ EntityTermsOfLanguage = <<>>
    /\ TermsFor("entity_terms") # <<>>
    /\ rewriting.rewritten.s
         = rewriting.query.s \o <<" ">> \o TermsFor("temporal_historical")

(***************************************************************************)
(* Properties of PartyExtractor                                            *)
(***************************************************************************)
ExtractCalled ==
    /\ pc = "extracted"
    /\ extraction.called = "extract_from_protocol_text"

\* The names of the retained candidates
RetainedNames ==
    {extraction.filtered_party_counts[k].name :
        k \in 1..Len(extraction.filtered_party_counts)}

\* The mentions of a retained candidate
RetainedCount(name) ==
    LET k == CHOOSE j \in 1..Len(extraction.filtered_party_counts) :
                 extraction.filtered_party_counts[j].name = name
    IN  extraction.filtered_party_counts[k].count

Fractions == extraction.result.fractions

\* One name is a case-insensitive substring of the other, or the two share
\* a significant token that is not a connector word
ConnectorWords == { <<"D","I","E">>, <<"D","E","R">>, <<"D","A","S">>, <<"U","N","D">>, <<"V","O","N">> }

PairwiseRelated(a, b) ==
    \/ Contains(Upper(a), Upper(b))
    \/ Contains(Upper(b), Upper(a))
    \/ (SignificantWords(Upper(a)) \cap SignificantWords(Upper(b)))
          \ ConnectorWords # {}

\* The names that a chain of pairwise relations connects to `reached`
RECURSIVE ChainFrom(_, _)
ChainFrom(names, reached) ==
    LET next ==
            reached \cup {b \in names : \E a \in reached : PairwiseRelated(a, b)}
    IN  IF next = reached THEN reached ELSE ChainFrom(names, next)

SameGroup(a, b) ==
    \E g \in 1..Len(Fractions) : {a, b} \subseteq Fractions[g].variations

\* C16: two retained candidates are in the same group if and only if a chain
\* of pairwise relations (case-insensitive substring, or a shared significant
\* token that is not a connector word) connects them; when the retained
\* candidates are CDU, CSU and CDU/CSU, each mentioned twice, there is
\* exactly one group, with 3 variations and mention_count 6.
C16_GroupingTransitive ==
    ExtractCalled =>
        /\ \A a, b \in RetainedNames :
              SameGroup(a, b) <=> b \in ChainFrom(RetainedNames, {a})
        /\ (/\ RetainedNames = { <<"C","D","U">>, <<"C","S","U">>, <<"C","D","U","/","C","S","U">> }
            /\ \A a \in RetainedNames : RetainedCount(a) = 2)
           => /\ Len(Fractions) = 1
              /\ Cardinality(Fractions[1].variations) = 3
              /\ Fractions[1].mention_count = 6

\* CDU and CSU are not related to each other and are grouped through CDU/CSU
C16_Witness ==
    /\ ExtractCalled
    /\ RetainedNames = { <<"C","D","U">>, <<"C","S","U">>, <<"C","D","U","/","C","S","U">> }
    /\ \A a \in RetainedNames : RetainedCount(a) = 2
    /\ ~PairwiseRelated(<<"C","D","U">>, <<"C","S","U">>)
    /\ SameGroup(<<"C","D","U">>, <<"C","S","U">>)
    /\ Len(Fractions) = 1
    /\ Fractions[1].mention_count = 6

\* The mentions of the retained candidates, counted in the list of candidates
RetainedMentions ==
    Cardinality({j \in 1..Len(extraction.candidates) :
                    extraction.candidates[j] \in RetainedNames})

\* The candidates that were accepted, retained or not
AcceptedMentions == SumCounts(extraction.party_counts)

ConfidenceByTable(num_groups, total_mentions) ==
    CHOOSE label \in {"high", "medium", "low"} :
        /\ label = "high" <=>
              (num_groups >= 4 \/ (num_groups >= 2 /\ total_mentions >= 20))
        /\ label = "low" <=>
              (num_groups < 2 /\ total_mentions < 10)

ConfidenceRank(label) ==
    CASE label = "low" -> 0 [] label = "medium" -> 1 [] label = "high" -> 2

\* C17: the confidence of a result is `high` if there are 4 or more
\* groups, or 2 or more groups and 20 or more mentions; `medium` if there are
\* 2 or more groups or 10 or more mentions; otherwise `low`; the mentions are
\* those of the retained candidates only.  With the mentions fixed, a number
\* of groups raised up to 4 never gives a lower label.
C17_ConfidenceTable ==
    ExtractCalled =>
        /\ extraction.result.confidence
             = ConfidenceByTable(Len(Fractions), RetainedMentions)
        /\ \A g \in 1..4 :
              g >= Len(Fractions) =>
                 ConfidenceRank(calculate_confidence(g, RetainedMentions))
                    >= ConfidenceRank(extraction.result.confidence)
        /\ \A g \in 1..3 :
              ConfidenceRank(calculate_confidence(g + 1, RetainedMentions))
                 >= ConfidenceRank(calculate_confidence(g, RetainedMentions))

\* One group whose 9 retained mentions give `low`, although 10 candidates
\* were accepted
C17_Witness ==
    /\ ExtractCalled
    /\ Len(Fractions) = 1
    /\ RetainedMentions = 9
    /\ AcceptedMentions = 10
    /\ extraction.result.confidence = "low"

\* The candidates that _is_likely_party accepts and that occur at least twice
AcceptedTwice ==
    {s \in Range(extraction.candidates) :
        /\ is_likely_party(s)
        /\ Cardinality({j \in 1..Len(extraction.candidates) :
                           extraction.candidates[j] = s}) >= 2}

\* C18: extract_from_protocol_text returns fractions = [], extraction_source
\* "none" and confidence "low" when the text is empty or no candidate is
\* accepted by the classification and the two-occurrence minimum; in every
\* other case extraction_source is "protocol_text" and fractions is non-empty.
C18_EmptyResult ==
    ExtractCalled =>
        IF extraction.text = <<>> \/ AcceptedTwice = {}
        THEN /\ extraction.result.fractions = <<>>
             /\ extraction.result.extraction_source = "none"
             /\ extraction.result.confidence = "low"
        ELSE /\ extraction.result.extraction_source = "protocol_text"
             /\ extraction.result.fractions # <<>>

\* A text whose accepted candidates all occur once gives the empty result
C18_Witness ==
    /\ ExtractCalled
    /\ \E j \in 1..Len(extraction.candidates) :
          is_likely_party(extraction.candidates[j])
    /\ AcceptedTwice = {}
    /\ extraction.result.extraction_source = "none"
    /\ extraction.result.fractions = <<>>

\* How often the exact string s occurs among the candidates
Occurrences(s) ==
    Cardinality({j \in 1..Len(extraction.candidates) : extraction.candidates[j] = s})

RECURSIVE SumOccurrences(_)
SumOccurrences(names) ==
    IF names = {} THEN 0
    ELSE LET s == CHOOSE t \in names : TRUE
         IN  Occurrences(s) + SumOccurrences(names \ {s})

\* C19: a candidate string that occurs fewer than 2 times is in no group's
\* variations and adds nothing to any mention_count, also when it is related
\* to a retained candidate: every variation occurred at least twice, and the
\* mention_count of a group is the number of occurrences of its variations.
C19_MinimumMentions ==
    ExtractCalled =>
        /\ \A s \in Range(extraction.candidates) :
              Occurrences(s) < 2 =>
                 \A g \in 1..Len(Fractions) : s \notin Fractions[g].variations
        /\ \A g \in 1..Len(Fractions) :
              /\ \A v \in Fractions[g].variations : Occurrences(v) >= 2
              /\ Fractions[g].mention_count
                   = SumOccurrences(Fractions[g].variations)

\* An accepted candidate mentioned once is related to a retained one and is
\* left out of its group
C19_Witness ==
    /\ ExtractCalled
    /\ \E s \in Range(extraction.candidates) :
          /\ Occurrences(s) = 1
          /\ is_likely_party(s)
          /\ \E g \in 1..Len(Fractions) :
                /\ PairwiseRelated(s, Fractions[g].name)
                /\ s \notin Fractions[g].variations
                /\ Fractions[g].mention_count
                     = SumOccurrences(Fractions[g].variations)

ClassifyCalled ==
    /\ pc = "classified"
    /\ extraction.called = "is_likely_party"

Candidate == Strip(extraction.text)

UppercaseLetters(text) == Cardinality({i \in 1..Len(text) : IsUpper(text[i])})
Letters(text) == Cardinality({i \in 1..Len(text) : IsAlpha(text[i])})

\* Length below 2 or above 25, an excluded vocabulary string inside, or no
\* uppercase letter
RejectedOutright(text) ==
    \/ Len(text) < 2
    \/ Len(text) > 25
    \/ \E keyword \in NON_PARTY_KEYWORDS : Contains(keyword, text)
    \/ UppercaseLetters(text) = 0

\* (a) length 2-6, all alphabetic, at least 2 uppercase letters
PatternAbbreviation(text) ==
    /\ Len(text) >= 2 /\ Len(text) <= 6
    /\ Letters(text) = Len(text)
    /\ UppercaseLetters(text) >= 2

\* (b) contains "/", uppercase ratio >= 0.5, letters on both sides of the "/"
PatternCompound(text) ==
    /\ \E p \in 1..Len(text) :
          /\ text[p] = "/"
          /\ \A q \in 1..Len(text) : text[q] = "/" => q = p
          /\ \E i \in 1..(p - 1) : IsAlpha(text[i])
          /\ \E i \in (p + 1)..Len(text) : IsAlpha(text[i])
    /\ 2 * UppercaseLetters(text) >= Letters(text)

\* (c) starts with "Die " / "DIE " followed by a capitalized word
PatternArticle(text) ==
    /\ StartsWith(text, <<"D","i","e"," ">>) \/ StartsWith(text, <<"D","I","E"," ">>)
    /\ \E i \in 5..Len(text) :
          /\ IsUpper(text[i])
          /\ \A j \in 5..(i - 1) : text[j] = " "

\* (d) starts with an organizational prefix
PatternPrefix(text) ==
    \/ StartsWith(text, <<"B","ü","n","d","n","i","s">>)
    \/ StartsWith(text, <<"B","Ü","N","D","N","I","S">>)
    \/ StartsWith(text, <<"B","u","n","d">>)

\* C20: a candidate that passes the rejections (length < 2 or > 25, an
\* excluded vocabulary string inside, no uppercase letter) is accepted if any
\* one of the four patterns (a) to (d) holds; every other candidate is
\* rejected.
C20_AcceptedIfAnyPattern ==
    ClassifyCalled =>
        (extraction.likely <=>
            /\ ~RejectedOutright(Candidate)
            /\ \/ PatternAbbreviation(Candidate)
               \/ PatternCompound(Candidate)
               \/ PatternArticle(Candidate)
               \/ PatternPrefix(Candidate))

\* The temporal stage kept at least one document of the historical period:
\* a historical keyword matched and some document entering the stage is
\* historical.
StrictHistoricalFilter ==
    /\ query_bundle.present
    /\ temporal_domain_config.present
    /\ HistoricalKeywordInQuery
    /\ \E i \in 1..Len(scored) : IsHistoricalDocument(scored[i])

RelevanceGateOpen ==
    /\ configuration.enable_llm_filter
    /\ configuration.llm
    /\ query_bundle.present
    /\ ~StrictHistoricalFilter

\* C21: within one postprocess call the language model is called only if
\* the relevance filter is enabled, a model and a query are available, and
\* the temporal stage did not keep documents by the historical filter; when
\* a historical keyword matched and the failsafe restored the list the stage
\* runs; a finished call has made one model call for each document left
\* after stages 1 to 3 when the stage runs, and none otherwise.
C21_RelevanceGating ==
    /\ llm_outcomes # <<>> => (StagesRan /\ RelevanceGateOpen)
    /\ (pc = "llm") => RelevanceGateOpen
    /\ (pc = "done" /\ nodes_in # <<>>) =>
          Len(llm_outcomes) = IF RelevanceGateOpen THEN Len(deduped) ELSE 0

\* A historical keyword matched, the failsafe restored the list, and the
\* relevance stage made one call for each document
C21_Witness ==
    /\ pc = "done"
    /\ nodes_in # <<>>
    /\ query_bundle.present
    /\ temporal_domain_config.present
    /\ HistoricalKeywordInQuery
    /\ ~StrictHistoricalFilter
    /\ Len(deduped) >= 2
    /\ Len(llm_outcomes) = Len(deduped)

\* Both documents have an embedding and their cosine similarity is at least
\* similarity_threshold
SimilarDocuments(a, b) ==
    /\ a.embedding.present
    /\ b.embedding.present
    /\ CosineAtLeast(a.embedding.vec, b.embedding.vec,
                     configuration.similarity_threshold)

\* The positions among the first n of the input of deduplication that are
\* not similar to a kept earlier position
RECURSIVE KeptPositions(_)
KeptPositions(n) ==
    IF n = 0 THEN {}
    ELSE LET earlier == KeptPositions(n - 1)
         IN  IF \E i \in earlier : SimilarDocuments(temporal[i], temporal[n])
             THEN earlier
             ELSE earlier \cup {n}

\* The documents of a list at the positions that satisfy Keep, in order
RECURSIVE AtPositions(_, _, _)
AtPositions(docs, n, positions) ==
    IF n = 0 THEN <<>>
    ELSE IF n \in positions
    THEN Append(AtPositions(docs, n - 1, positions), docs[n])
    ELSE AtPositions(docs, n - 1, positions)

WithEmbedding(docs) ==
    AtPositions(docs, Len(docs), {i \in 1..Len(docs) : docs[i].embedding.present})

\* C22: every document removed by deduplication has an embedding and is
\* similar to a kept document that stands earlier in the input list; the
\* first input document is always kept; a document lacking an embedding is
\* never removed and never causes the removal of another document.
C22_DeduplicationKeepsEarlier ==
    StagesRan =>
        LET kept == KeptPositions(Len(temporal))
        IN  /\ deduped = AtPositions(temporal, Len(temporal), kept)
            /\ \A j \in (1..Len(temporal)) \ kept :
                  /\ temporal[j].embedding.present
                  /\ \E i \in kept : i < j /\ SimilarDocuments(temporal[i], temporal[j])
            /\ temporal # <<>> => (1 \in kept /\ deduped[1] = temporal[1])
            /\ \A j \in 1..Len(temporal) :
                  ~temporal[j].embedding.present => j \in kept
            /\ WithEmbedding(deduped)
                 = deduplicate_semantically(WithEmbedding(temporal),
                                            configuration.similarity_threshold)

\* A document without embedding stands between two similar documents: it is
\* kept, and the third document is removed because of the first
C22_Witness ==
    /\ StagesRan
    /\ Len(temporal) = 3
    /\ ~temporal[2].embedding.present
    /\ SimilarDocuments(temporal[1], temporal[3])
    /\ deduped = <<temporal[1], temporal[2]>>

\* The query of the call contains no historical and no current keyword
NoTemporalKeywordInQuery ==
    ~HistoricalKeywordInQuery /\ ~CurrentKeywordInQuery

\* C23: the temporal stage returns its input list unchanged and reports no
\* filter applied whenever no Domain Configuration is present or the query
\* contains neither a historical nor a current keyword; without a query the
\* stage is not run and the list is likewise left as it is.  The call goes
\* on to the later stages in each of these cases.
C23_TemporalPassThrough ==
    StagesRan =>
        /\ ~query_bundle.present =>
              (temporal = scored /\ ~applied_historical_filter)
        /\ (query_bundle.present /\ ~temporal_domain_config.present) =>
              (temporal = scored /\ ~applied_historical_filter)
        /\ (/\ query_bundle.present
            /\ temporal_domain_config.present
            /\ NoTemporalKeywordInQuery) =>
              (temporal = scored /\ ~applied_historical_filter)

\* A query without temporal keyword under a Domain Configuration: a document
\* that the current filter would drop passes the stage
C23_Witness ==
    /\ StagesRan
    /\ query_bundle.present
    /\ temporal_domain_config.present
    /\ NoTemporalKeywordInQuery
    /\ \E i \in 1..Len(scored) :
          /\ ~IsCurrentOrUnknownDocument(scored[i])
          /\ \E j \in 1..Len(scored) : IsCurrentOrUnknownDocument(scored[j])
    /\ temporal = scored

\* The triple (contains "/", length, raw mention count) of a candidate
RepresentativeTriple(name) ==
    << IF \E i \in 1..Len(name) : name[i] = "/" THEN 1 ELSE 0,
       Len(name),
       Occurrences(name) >>

\* Lexicographic order of triples
TripleAtLeast(t, u) ==
    \/ t[1] > u[1]
    \/ t[1] = u[1] /\ t[2] > u[2]
    \/ t[1] = u[1] /\ t[2] = u[2] /\ t[3] >= u[3]

\* The position of the first mention of a candidate
FirstMention(name) ==
    CHOOSE j \in 1..Len(extraction.candidates) :
        /\ extraction.candidates[j] = name
        /\ \A k \in 1..(j - 1) : extraction.candidates[k] # name

\* C24: the name of every group is a member of the group, and its triple
\* (contains "/", string length, raw mention count) is lexicographically
\* maximal among the members of the group, in whatever order the candidates
\* were mentioned and merged.
C24_CanonicalRepresentative ==
    ExtractCalled =>
        \A g \in 1..Len(Fractions) :
            /\ Fractions[g].name \in Fractions[g].variations
            /\ \A v \in Fractions[g].variations :
                  TripleAtLeast(RepresentativeTriple(Fractions[g].name),
                                RepresentativeTriple(v))

\* The name of a group is mentioned after another member that has more
\* mentions: the longer string wins
C24_Witness ==
    /\ ExtractCalled
    /\ \E g \in 1..Len(Fractions) : \E v \in Fractions[g].variations :
          /\ v # Fractions[g].name
          /\ FirstMention(v) < FirstMention(Fractions[g].name)
          /\ Occurrences(v) > Occurrences(Fractions[g].name)
          /\ Len(v) < Len(Fractions[g].name)

RECURSIVE SumMentionCounts(_)
SumMentionCounts(fractions) ==
    IF fractions = <<>> THEN 0
    ELSE Head(fractions).mention_count + SumMentionCounts(Tail(fractions))

\* C25: every retained candidate is in the variations of exactly one group,
\* every variation is a retained candidate, the name of a group is one of
\* its variations, the mention_count of a group is the sum of the counts of
\* its members, and the mention_counts add up to the number of retained
\* mentions.
C25_GroupsPartition ==
    ExtractCalled =>
        /\ \A s \in RetainedNames :
              Cardinality({g \in 1..Len(Fractions) :
                              s \in Fractions[g].variations}) = 1
        /\ \A g \in 1..Len(Fractions) :
              /\ Fractions[g].variations \subseteq RetainedNames
              /\ Fractions[g].name \in Fractions[g].variations
              /\ Fractions[g].mention_count
                   = SumOccurrences(Fractions[g].variations)
        /\ SumMentionCounts(Fractions) = RetainedMentions

\* Five retained candidates in three groups
C25_Witness ==
    /\ ExtractCalled
    /\ Cardinality(RetainedNames) >= 5
    /\ Len(Fractions) = 3
    /\ \E g \in 1..3 : Cardinality(Fractions[g].variations) = 3
    /\ SumMentionCounts(Fractions) = RetainedMentions

(***************************************************************************)
(* Properties of the components together                                   *)
(***************************************************************************)
\* The documents of nodes whose completion call, in outcomes, keeps them.
RECURSIVE KeptOf(_, _, _)
KeptOf(nodes, outcomes, n) ==
    IF n = 0 THEN <<>>
    ELSE IF LlmKeeps(outcomes[n])
    THEN Append(KeptOf(nodes, outcomes, n - 1), nodes[n])
    ELSE KeptOf(nodes, outcomes, n - 1)

\* What a finished _postprocess_nodes call returns, from its two arguments,
\* the configuration and the answers the language model gave in this call.
PostprocessOf(cfg, config, nodes, qb, outcomes) ==
    IF nodes = <<>> THEN nodes
    ELSE LET st == Stages(cfg, config, nodes, qb)
         IN  IF /\ RunsLlmFilter(config, qb, st.applied_historical_filter)
                /\ st.deduped # <<>>
             THEN Take(KeptOf(st.deduped, outcomes, Len(st.deduped)),
                       config.max_documents)
             ELSE Take(st.deduped, config.max_documents)

\* Each finished call returned what its own arguments and the configuration
\* determine.
ResultsFromOwnArguments ==
    /\ (pc = "done") =>
          result = PostprocessOf(temporal_domain_config, configuration,
                                 nodes_in, query_bundle, llm_outcomes)
    /\ (pc = "retrieved") =>
          /\ retrieval = retrieve(temporal_domain_config, similarity_top_k,
                                  retrieval.original_query,
                                  retrieval.index_outcomes)
          /\ retrieval.filter_mode
               = get_temporal_filter_mode(temporal_domain_config,
                                          retrieval.original_query)
    /\ (pc = "rewritten") =>
          /\ rewriting.raised
               = rewrite_call(temporal_domain_config, rewriting.query).raised
          /\ rewriting.rewritten
               = rewrite_call(temporal_domain_config, rewriting.query).value
    /\ (pc = "checked") =>
          /\ rewriting.raised
               = should_rewrite_call(temporal_domain_config, rewriting.query).raised
          /\ rewriting.should
               = should_rewrite_call(temporal_domain_config, rewriting.query).value

\* Between two calls nothing of an earlier call is left.
NothingKeptBetweenCalls ==
    (pc = "idle") =>
        /\ nodes_in = <<>> /\ query_bundle = NoQueryBundle
        /\ scored = <<>> /\ temporal = <<>> /\ deduped = <<>>
        /\ ~applied_historical_filter
        /\ llm_outcomes = <<>> /\ relevant_nodes = <<>> /\ result = <<>>
        /\ retrieval = NoRetrieval /\ rewriting = NoRewriting

\* C27: Statelessness across calls.  No step of a rewrite, should_rewrite,
\* get_temporal_filter_mode, retrieve or postprocess call changes the Domain
\* Configuration, the other constructor arguments or the components' keyword
\* lists, which stay as the constructors built them; and the result of each
\* call is determined by its own arguments and the configuration, whatever
\* calls were made before it.
C27_Stateless ==
    /\ [][deployment' = deployment]_vars
    /\ [](keyword_lists = ComponentKeywordLists(temporal_domain_config))
    /\ []ResultsFromOwnArguments
    /\ []NothingKeptBetweenCalls

\* A postprocess call with a Domain Configuration has asked the language
\* model about its documents and returned some of them; the components'
\* keyword lists are not empty.
C27_Witness ==
    /\ pc = "done"
    /\ temporal_domain_config.present
    /\ keyword_lists.postprocessor.historical # <<>>
    /\ keyword_lists.retriever.current # <<>>
    /\ llm_outcomes # <<>>
    /\ result # <<>>
    /\ Len(result) < Len(nodes_in)

\* The three classifications of the query of the last retrieve call.
RetrieverMode == retrieval.filter_mode

RewriterBranch ==
    rewrite_branch(temporal_domain_config, retrieval.original_query)

PostprocessorBranch ==
    temporal_filter_branch(temporal_domain_config, retrieval.original_query)

\* The word-boundary search of the retriever and the substring test of the
\* rewriter and the postprocessor find a keyword of the same lists in the
\* query.
SearchAndSubstringAgree ==
    LET q == retrieval.original_query
        cfg == temporal_domain_config
    IN  /\ AnyWholeWordIn(RetrieverHistoricalKeywords(cfg), q)
              <=> AnyKeywordIn(PostprocessorHistoricalKeywords(cfg), Lower(q))
        /\ AnyWholeWordIn(RetrieverCurrentKeywords(cfg), q)
              <=> AnyKeywordIn(PostprocessorCurrentKeywords(cfg), Lower(q))

\* C28 as stated: for every configuration and query the retriever's mode is
\* historical exactly when the rewriter takes its historical expansion
\* branch and exactly when the postprocessor takes its historical filter
\* branch, and likewise for current.
C28_SameClassification_AsStated ==
    retrieval.called =>
        \A mode \in {"historical", "current"} :
            /\ (RetrieverMode = mode) <=> (RewriterBranch = mode)
            /\ (RetrieverMode = mode) <=> (PostprocessorBranch = mode)

\* C28, amended: the rewriter and the postprocessor classify a query that
\* is not blank identically; the retriever's mode is the same as theirs for
\* every configuration and query in which its word-boundary search finds a
\* historical keyword exactly when one occurs as a substring, and a current
\* keyword exactly when one occurs as a substring.
C28_SameClassification ==
    retrieval.called =>
        \A mode \in {"historical", "current"} :
            /\ ~IsBlank(retrieval.original_query) =>
                  ((RewriterBranch = mode) <=> (PostprocessorBranch = mode))
            /\ SearchAndSubstringAgree =>
                  /\ (RetrieverMode = mode) <=> (RewriterBranch = mode)
                  /\ (RetrieverMode = mode) <=> (PostprocessorBranch = mode)

\* A query with a historical and a current keyword, both as whole words: all
\* three components classify it as historical.
C28_Witness ==
    /\ retrieval.called
    /\ SearchAndSubstringAgree
    /\ AnyWholeWordIn(RetrieverCurrentKeywords(temporal_domain_config),
                      retrieval.original_query)
    /\ RetrieverMode = "historical"
    /\ RewriterBranch = "historical"
    /\ PostprocessorBranch = "historical"

\* The retriever filters on the current period while the rewriter expands
\* with the historical terms: the historical keyword occurs only inside a
\* longer word.
RetrieverCurrentRewriterHistorical ==
    /\ retrieval.called
    /\ RetrieverMode = "current"
    /\ RewriterBranch = "historical"
    /\ PostprocessorBranch = "historical"

(***************************************************************************)
(* Further properties of the postprocessor                                 *)
(***************************************************************************)
\* At least one input document of the call passes the score threshold.
SomeInputPassesThreshold ==
    \E i \in 1..Len(nodes_in) :
        nodes_in[i].score >= configuration.score_threshold

\* C29: the postprocessor never empties a usable candidate set on its own.
\* If at least one input document has score >= score_threshold and the
\* relevance stage does not run in the call, the returned list is not empty;
\* max_documents is at least 1.
C29_NeverEmptiesUsableSet ==
    /\ configuration.max_documents >= 1
    /\ (pc = "done" /\ SomeInputPassesThreshold /\ ~RelevanceStageRuns)
          => result # <<>>

\* A historical query whose scored documents are all of another period: the
\* failsafe keeps them, the relevance stage does not run, and the call
\* returns a non-empty list shorter than its input.
C29_Witness ==
    /\ pc = "done"
    /\ SomeInputPassesThreshold
    /\ ~RelevanceStageRuns
    /\ TemporalStageRan
    /\ HistoricalKeywordInQuery
    /\ ~applied_historical_filter
    /\ result # <<>>
    /\ Len(result) < Len(nodes_in)

\* The stages 1 to 3 of a second call on the list the call returned, with
\* the same query.
SecondCall == Stages(temporal_domain_config, configuration, result, query_bundle)

\* C30: postprocessing is idempotent when the relevance stage does not run.
\* For every candidate list and query, a second call on the returned list
\* with the same query does not run the relevance stage either and returns
\* that list again.
C30_Idempotent ==
    (pc = "done" /\ ~RelevanceStageRuns) =>
        \/ result = <<>>
        \/ /\ ~RunsLlmFilter(configuration, query_bundle,
                             SecondCall.applied_historical_filter)
           /\ Take(SecondCall.deduped, configuration.max_documents) = result

\* A historical query: the first call dropped documents by score, by period
\* and as duplicates, and the second call returns the list of the first.
C30_Witness ==
    /\ pc = "done"
    /\ ~RelevanceStageRuns
    /\ applied_historical_filter
    /\ Len(scored) < Len(nodes_in)
    /\ Len(temporal) < Len(scored)
    /\ result # <<>>
    /\ Take(SecondCall.deduped, configuration.max_documents) = result

=============================================================================
